---- MODULE Spec2Model ----
(***************************************************************************)
(* Content assembly and cross-reference resolution of the draft system.    *)
(*                                                                         *)
(* Part 1 models UniversalMarkdownParser (universal_markdown_parser.py):   *)
(* parse_document_folder, run line by line through _parse_markdown_file,   *)
(* and resolve_cross_references.  Text is a sequence of tokens: plain      *)
(* text, emphasis spans, {{LABEL:..}}, {{REF:..}} and {{REF_RANGE:..:..}}. *)
(* Issues are the strings the code appends to self.errors/self.warnings.   *)
(*                                                                         *)
(* Part 2 models the two passes of LegalDocumentGenerator                  *)
(* (generate_legal_document.py): _collect_labels and _generate_body.       *)
(***************************************************************************)
EXTENDS Integers, Sequences, FiniteSets, TLC

VARIABLES
    pc,                        \* position of the caller of the parser
    current_paragraph_number,  \* self.current_paragraph_number
    labels,                    \* self.labels : label name -> paragraph number
    errors,                    \* self.errors
    warnings,                  \* self.warnings
    sections,                  \* parse_document_folder: sections
    order,                     \* parse_document_folder: i + 1 of the file last opened
    section,                   \* _parse_markdown_file: section
    current_subsection,        \* _parse_markdown_file: <<>> (None) or <<subsection>>
    current_list,              \* _parse_markdown_file: current_list
    in_list,                   \* _parse_markdown_file: in_list
    line_num,                  \* _parse_markdown_file: line_num of the line last read
    linesRead,                 \* lines read in this run, all files together
    total_paragraphs,          \* result['total_paragraphs']
    document_type,             \* result['document_type']
    resIn,                     \* argument of the last resolve_cross_references call
    resOut,                    \* its return value
    resErrs,                   \* Len(self.errors) when that call began
    resCalls                   \* number of resolve_cross_references calls made

parserVars == <<pc, current_paragraph_number, labels, errors, warnings, sections,
                order, section, current_subsection, current_list, in_list, line_num,
                linesRead, total_paragraphs, document_type, resIn, resOut, resErrs,
                resCalls>>

-----------------------------------------------------------------------------
(* Bounds of the model *)

\* markdown files in the draft_content folder
MaxFiles == 2
\* non-blank lines read in one run, over all files
MaxLines == 3
\* resolve_cross_references calls after a run
MaxResolves == 1

-----------------------------------------------------------------------------
(* Tokens of a line of markdown *)

Txt(s)        == [t |-> "text", s |-> s]
Bold(s)       == [t |-> "bold", s |-> s]
Strong(s)     == [t |-> "strong", s |-> s]
Label(n)      == [t |-> "label", s |-> n]
Ref(n)        == [t |-> "ref", s |-> n]
RefRange(a, b) == [t |-> "range", s |-> a, e |-> b]

IsLabelTok(tok) == tok.t = "label"
IsRefTok(tok)   == tok.t \in {"ref", "range"}

\* a line: kind "header" (level, text), "num" (marker digits, P-form, body),
\* "list" (body) or "prose" (body)
HeaderLine(lv, title) == [k |-> "header", level |-> lv, digits |-> "", pform |-> FALSE,
                          body |-> <<Txt(title)>>]
NumLine(d, p, b)      == [k |-> "num", level |-> 0, digits |-> d, pform |-> p, body |-> b]
ListLine(b)           == [k |-> "list", level |-> 0, digits |-> "", pform |-> FALSE, body |-> b]
ProseLine(b)          == [k |-> "prose", level |-> 0, digits |-> "", pform |-> FALSE, body |-> b]

\* the lines a fragment is made of
LineSet ==
    { HeaderLine(1, "Introduction"),
      HeaderLine(2, "Facts"),
      HeaderLine(4, "Detail"),
      NumLine("1", FALSE, <<Txt("Intro"), Label("a"), Txt("see"), Ref("b")>>),
      NumLine("7", TRUE,  <<Bold("Fact"), Label("b"), Label("c")>>),
      ListLine(<<Txt("item"), RefRange("a", "b")>>),
      ProseLine(<<Txt("continued"), Label("b")>>) }

\* the texts handed to resolve_cross_references
RefTexts ==
    { <<Txt("See"), Ref("a"), Txt("and"), Ref("c"), RefRange("c", "a")>>,
      <<RefRange("a", "b")>>,
      <<RefRange("b", "c")>> }

DocumentTypes == {"unknown", "complaint", "motion"}

\* the keys of self.document_specs
KnownTypes == {"complaint", "motion"}

\* self.document_specs[document_type].get('required_sections', []): a list of
\* rules read from document_type_specifications.yml; the second rule of "motion"
\* has no 'name' key
RequiredSections(dt) ==
    CASE dt = "complaint" -> <<[name |-> "Introduction"]>>
      [] dt = "motion" -> <<[name |-> "Facts"], [title |-> "Argument"]>>
      [] OTHER -> <<>>

FileName(i) == "0" \o ToString(i) \o ".md"

\* str.upper() on the header titles of LineSet
Upper(s) ==
    CASE s = "Introduction" -> "INTRODUCTION"
      [] s = "Facts" -> "FACTS"
      [] s = "Argument" -> "ARGUMENT"
      [] s = "Detail" -> "DETAIL"
      [] OTHER -> s


-----------------------------------------------------------------------------
(* Helpers of UniversalMarkdownParser *)

Range(f) == { f[i] : i \in DOMAIN f }

\* _match_numbered_paragraph: <<>> (None) or <<original_num, content_text>>
MatchNumberedParagraph(line) ==
    IF line.k # "num" THEN <<>>
    ELSE IF ~line.pform THEN <<line.digits, line.body>>
    ELSE <<"P" \o line.digits, line.body>>

\* _extract_labels: the names of the {{LABEL:name}} tokens, in order
ExtractLabels(text) ==
    LET toks == SelectSeq(text, IsLabelTok)
    IN  [i \in 1..Len(toks) |-> toks[i].s]

NotLabelTok(tok) == ~IsLabelTok(tok)

\* _clean_content: the text without its {{LABEL:name}} tokens
CleanContent(text) == SelectSeq(text, NotLabelTok)

\* _format_legal_text: **x** becomes <strong>x</strong>, *x* becomes <em>x</em>
FormatLegalText(text) ==
    [i \in 1..Len(text) |->
        IF text[i].t = "bold" THEN Strong(text[i].s)
        ELSE IF text[i].t = "italic" THEN [t |-> "em", s |-> text[i].s]
        ELSE text[i]]

ParsedParagraph(n, orig, content, lbls, numbered) ==
    [number |-> n, original_number |-> orig, content |-> content, labels |-> lbls,
     is_numbered |-> numbered]

ParsedSection(title, level, ord) ==
    [title |-> title, level |-> level, paragraphs |-> <<>>, subsections |-> <<>>,
     lists |-> <<>>, document_order |-> ord]

\* the value digits of an original marker ("7" and "P7" are 7)
MarkerValue(orig) ==
    CASE orig \in {"1", "P1"} -> 1
      [] orig \in {"2", "P2"} -> 2
      [] orig \in {"7", "P7"} -> 7
      [] OTHER -> 0

\* a slip: the label is bound to the digits of the paragraph's own marker
StoreLabelsByMarker(paragraph, table) ==
    [l \in DOMAIN table \cup Range(paragraph.labels) |->
        IF l \in Range(paragraph.labels) THEN MarkerValue(paragraph.original_number)
        ELSE table[l]]

\* "for label in labels: self.labels[label] = self.current_paragraph_number"
StoreLabels(paragraph, table) ==
    [l \in DOMAIN table \cup Range(paragraph.labels) |->
        IF l \in Range(paragraph.labels) THEN paragraph.number ELSE table[l]]

\* a slip: the counter is not advanced after a numbered paragraph
KeepNumber(n) == n

\* "self.current_paragraph_number += 1"
NextNumber(n) == n + 1

\* append a paragraph to current_subsection if there is one, else to section
AddParagraph(sec, sub, paragraph) ==
    IF sub # <<>>
    THEN <<sec, <<[sub[1] EXCEPT !.paragraphs = Append(@, paragraph)]>> >>
    ELSE <<[sec EXCEPT !.paragraphs = Append(@, paragraph)], sub>>

\* append a list to current_subsection if there is one, else to section
AddList(sec, sub, lst) ==
    IF sub # <<>>
    THEN <<sec, <<[sub[1] EXCEPT !.lists = Append(@, lst)]>> >>
    ELSE <<[sec EXCEPT !.lists = Append(@, lst)], sub>>

-----------------------------------------------------------------------------
(* parse_document_folder and _parse_markdown_file *)

NoSection == ParsedSection("", 0, 0)

\* UniversalMarkdownParser.__init__: the parser state
Constructed ==
    /\ pc = "constructed"
    /\ current_paragraph_number = 1
    /\ labels = <<>>
    /\ errors = <<>>
    /\ warnings = <<>>
    /\ sections = <<>>
    /\ order = 0
    /\ section = NoSection
    /\ current_subsection = <<>>
    /\ current_list = <<>>
    /\ in_list = FALSE
    /\ line_num = 0
    /\ linesRead = 0
    /\ total_paragraphs = 0
    /\ document_type = ""
    /\ resIn = <<>>
    /\ resOut = <<>>
    /\ resErrs = 0
    /\ resCalls = 0

\* parse_document_folder up to the loop over md_files
ParseDocumentFolder ==
    /\ pc = "constructed"
    /\ pc' = "folder"
    /\ sections' = <<>>
    /\ order' = 0
    /\ UNCHANGED <<current_paragraph_number, labels, errors, warnings, section,
                   current_subsection, current_list, in_list, line_num, linesRead,
                   total_paragraphs, document_type, resIn, resOut, resErrs, resCalls>>

\* _parse_markdown_file on a file whose content is empty or blank: returns None
OpenEmptyFile ==
    /\ pc = "folder"
    /\ order < MaxFiles
    /\ order' = order + 1
    /\ UNCHANGED <<pc, current_paragraph_number, labels, errors, warnings, sections,
                   section, current_subsection, current_list, in_list, line_num,
                   linesRead, total_paragraphs, document_type, resIn, resOut, resErrs,
                   resCalls>>

\* _parse_markdown_file on a file with content: the section is initialized
OpenFile ==
    /\ pc = "folder"
    /\ order < MaxFiles
    /\ linesRead < MaxLines
    /\ order' = order + 1
    /\ section' = ParsedSection("", 1, order + 1)
    /\ current_subsection' = <<>>
    /\ current_list' = <<>>
    /\ in_list' = FALSE
    /\ line_num' = 0
    /\ pc' = "file"
    /\ UNCHANGED <<current_paragraph_number, labels, errors, warnings, sections,
                   linesRead, total_paragraphs, document_type, resIn, resOut, resErrs,
                   resCalls>>

HeaderLevelError(level, file, ln) ==
    "Header level " \o ToString(level) \o " exceeds maximum (H3) in " \o file \o ":"
        \o ToString(ln)

\* a line starting with '#'
HandleHeader(line) ==
    /\ line.k = "header"
    /\ IF line.level > 3
       THEN /\ errors' = Append(errors,
                            HeaderLevelError(line.level, FileName(order), line_num + 1))
            /\ UNCHANGED <<section, current_subsection>>
       ELSE IF line.level = 1 /\ section.title = ""
       THEN /\ section' = [section EXCEPT !.title = line.body[1].s, !.level = 1]
            /\ UNCHANGED <<errors, current_subsection>>
       ELSE IF line.level > 1
       THEN /\ section' =
                  IF current_subsection # <<>> /\ current_subsection[1].paragraphs # <<>>
                  THEN [section EXCEPT !.subsections = Append(@, current_subsection[1])]
                  ELSE section
            /\ current_subsection' = <<ParsedSection(line.body[1].s, line.level, order)>>
            /\ UNCHANGED errors
       ELSE UNCHANGED <<errors, section, current_subsection>>
    /\ UNCHANGED <<current_paragraph_number, labels, current_list, in_list>>

\* a line _match_numbered_paragraph matches
HandleNumbered(line) ==
    /\ MatchNumberedParagraph(line) # <<>>
    /\ LET m         == MatchNumberedParagraph(line)
           lbls      == ExtractLabels(m[2])
           content   == FormatLegalText(CleanContent(m[2]))
           paragraph == ParsedParagraph(current_paragraph_number, m[1], content, lbls, TRUE)
           placed    == AddParagraph(section, current_subsection, paragraph)
       IN  /\ labels' = StoreLabels(paragraph, labels)
           /\ section' = placed[1]
           /\ current_subsection' = placed[2]
           /\ current_paragraph_number' = NextNumber(current_paragraph_number)
    /\ UNCHANGED <<errors, current_list, in_list>>

\* a line matching ^\s*[a-z]\.\s+
HandleListItem(line) ==
    /\ line.k = "list"
    /\ current_list' = Append(IF in_list THEN current_list ELSE <<>>,
                              FormatLegalText(line.body))
    /\ in_list' = TRUE
    /\ UNCHANGED <<current_paragraph_number, labels, errors, section, current_subsection>>

\* any other line: closes an open list, then becomes a non-numbered paragraph
HandleProse(line) ==
    /\ line.k = "prose"
    /\ LET flushed   == IF in_list /\ current_list # <<>>
                        THEN AddList(section, current_subsection, current_list)
                        ELSE <<section, current_subsection>>
           paragraph == ParsedParagraph(0, "None", FormatLegalText(line.body), <<>>, FALSE)
           placed    == AddParagraph(flushed[1], flushed[2], paragraph)
       IN  /\ section' = placed[1]
           /\ current_subsection' = placed[2]
    /\ current_list' = IF in_list THEN <<>> ELSE current_list
    /\ in_list' = FALSE
    /\ UNCHANGED <<current_paragraph_number, labels, errors>>

\* the body of "for line_num, line in enumerate(lines, 1)" on the non-blank line
ReadLine(line) ==
    /\ pc = "file"
    /\ linesRead < MaxLines
    /\ line_num' = line_num + 1
    /\ linesRead' = linesRead + 1
    /\ \/ HandleHeader(line)
       \/ HandleNumbered(line)
       \/ HandleListItem(line)
       \/ HandleProse(line)
    /\ UNCHANGED <<pc, warnings, sections, order, total_paragraphs, document_type,
                   resIn, resOut, resErrs, resCalls>>

\* one iteration of "for line_num, line in enumerate(lines, 1)" on a non-blank line
ParseLine == \E line \in LineSet : ReadLine(line)

\* _parse_markdown_file after the loop: the section "return section" hands back
FinishSection(sec, sub, lst) ==
    LET appended == sub # <<>> /\ (sub[1].paragraphs # <<>> \/ sub[1].lists # <<>>)
        finalSub == IF sub # <<>> /\ lst # <<>>
                    THEN [sub[1] EXCEPT !.lists = Append(@, lst)]
                    ELSE IF sub # <<>> THEN sub[1] ELSE NoSection
        sec1     == IF appended
                    THEN [sec EXCEPT !.subsections = Append(@, finalSub)]
                    ELSE sec
    IN  IF lst # <<>> /\ sub = <<>>
        THEN [sec1 EXCEPT !.lists = Append(@, lst)]
        ELSE sec1

\* end of the file: the section is appended to sections
CloseFile ==
    /\ pc = "file"
    /\ line_num >= 1
    /\ sections' = Append(sections, FinishSection(section, current_subsection, current_list))
    /\ section' = NoSection
    /\ current_subsection' = <<>>
    /\ current_list' = <<>>
    /\ in_list' = FALSE
    /\ line_num' = 0
    /\ pc' = "folder"
    /\ UNCHANGED <<current_paragraph_number, labels, errors, warnings, order, linesRead,
                   total_paragraphs, document_type, resIn, resOut, resErrs, resCalls>>

\* the section titles _validate_document_structure compares against
SectionTitles(secs) ==
    { Upper(secs[i].title) : i \in { j \in 1..Len(secs) : secs[j].title # "" } }

\* the rules the loop over required_sections evaluates: all of them, or those
\* before the first rule on which req_section['name'] raises KeyError
EvaluatedRules(req) ==
    LET bad == { i \in 1..Len(req) : "name" \notin DOMAIN req[i] }
    IN  IF bad = {} THEN req
        ELSE SubSeq(req, 1, (CHOOSE i \in bad : \A j \in bad : i <= j) - 1)

\* does _validate_document_structure raise on this document type?
ValidationRaises(dt) ==
    dt \in KnownTypes /\ EvaluatedRules(RequiredSections(dt)) # RequiredSections(dt)

MissingRequired(secs, dt) ==
    LET req  == EvaluatedRules(RequiredSections(dt))
        miss == SelectSeq(req, LAMBDA r : Upper(r.name) \notin SectionTitles(secs))
    IN  [i \in 1..Len(miss) |-> "Missing required section: " \o Upper(miss[i].name)]

\* a slip: validation adds an empty section for every missing required section
ValidatedSectionsPadded(secs, dt) ==
    LET miss == MissingRequired(secs, dt)
    IN  secs \o [i \in 1..Len(miss) |-> ParsedSection(miss[i], 1, 0)]

\* the sections list after _validate_document_structure: it is only read
ValidatedSections(secs, dt) == secs

\* _validate_document_structure, then the result is returned; an exception of
\* _validate_document_structure leaves parse_document_folder without a result
ValidateAndReturn ==
    /\ pc = "folder"
    /\ \E dt \in DocumentTypes :
          /\ IF dt \notin KnownTypes
             THEN /\ warnings' = Append(warnings, "Unknown document type: " \o dt)
                  /\ UNCHANGED errors
             ELSE /\ errors' = errors \o MissingRequired(sections, dt)
                  /\ UNCHANGED warnings
          /\ sections' = ValidatedSections(sections, dt)
          /\ IF ValidationRaises(dt)
             THEN /\ pc' = "raised"
                  /\ UNCHANGED <<total_paragraphs, document_type>>
             ELSE /\ pc' = "returned"
                  /\ total_paragraphs' = current_paragraph_number - 1
                  /\ document_type' = dt
    /\ UNCHANGED <<current_paragraph_number, labels, order, section,
                   current_subsection, current_list, in_list, line_num, linesRead,
                   resIn, resOut, resErrs, resCalls>>

-----------------------------------------------------------------------------
(* resolve_cross_references *)

RefError(tok) ==
    IF tok.t = "range" THEN "[REF ERROR: " \o tok.s \o ":" \o tok.e \o "]"
    ELSE "[REF ERROR: " \o tok.s \o "]"

RefErrorIssue(tok) ==
    IF tok.t = "range" THEN "Unresolved reference range: " \o tok.s \o ":" \o tok.e
    ELSE "Unresolved reference: " \o tok.s

\* does the token resolve against the label table?
Resolves(tok, table) ==
    IF tok.t = "range" THEN tok.s \in DOMAIN table /\ tok.e \in DOMAIN table
    ELSE tok.s \in DOMAIN table

\* a slip: the range is printed in ascending order
ReplaceRangeRefSorted(tok, table) ==
    IF Resolves(tok, table)
    THEN LET lo == IF table[tok.s] <= table[tok.e] THEN table[tok.s] ELSE table[tok.e]
             hi == IF table[tok.s] <= table[tok.e] THEN table[tok.e] ELSE table[tok.s]
         IN  IF lo = hi THEN ToString(lo)
             ELSE ToString(lo) \o " through " \o ToString(hi)
    ELSE RefError(tok)

\* a slip: equal endpoints are not collapsed
ReplaceRangeRefNoCollapse(tok, table) ==
    IF Resolves(tok, table)
    THEN ToString(table[tok.s]) \o " through " \o ToString(table[tok.e])
    ELSE RefError(tok)

\* replace_range_ref: the text a {{REF_RANGE:start:end}} token is replaced by
ReplaceRangeRef(tok, table) ==
    IF Resolves(tok, table)
    THEN IF table[tok.s] = table[tok.e]
         THEN ToString(table[tok.s])
         ELSE ToString(table[tok.s]) \o " through " \o ToString(table[tok.e])
    ELSE RefError(tok)

\* a slip: an unresolved {{REF:label}} is left in the text as it is, unreported
ReplaceSingleRefRaw(tok, table) ==
    IF Resolves(tok, table) THEN ToString(table[tok.s]) ELSE "{{REF:" \o tok.s \o "}}"

\* replace_single_ref: the text a {{REF:label}} token is replaced by
ReplaceSingleRef(tok, table) ==
    IF Resolves(tok, table) THEN ToString(table[tok.s]) ELSE RefError(tok)

\* re.sub over the tokens of one kind, the others left as they are
SubTokens(text, kind, table) ==
    [i \in 1..Len(text) |->
        IF text[i].t # kind THEN text[i]
        ELSE IF kind = "range" THEN Txt(ReplaceRangeRef(text[i], table))
        ELSE Txt(ReplaceSingleRef(text[i], table))]

\* a slip: one Issue per unresolved endpoint of a range
UnresolvedIssuesPerEndpoint(text, kind, table) ==
    LET bad == SelectSeq(text, LAMBDA tok : tok.t = kind /\ ~Resolves(tok, table))
        one == [i \in 1..Len(bad) |-> RefErrorIssue(bad[i])]
        two == SelectSeq(bad, LAMBDA tok : tok.t = "range" /\ tok.s \notin DOMAIN table
                                             /\ tok.e \notin DOMAIN table)
    IN  one \o [i \in 1..Len(two) |-> RefErrorIssue(two[i])]

\* the Issues the replacement callbacks of one re.sub append, in text order
UnresolvedIssues(text, kind, table) ==
    LET bad == SelectSeq(text, LAMBDA tok : tok.t = kind /\ ~Resolves(tok, table))
    IN  [i \in 1..Len(bad) |-> RefErrorIssue(bad[i])]

\* the text resolve_cross_references returns: ranges first, then single references
ResolvedText(text, table) == SubTokens(SubTokens(text, "range", table), "ref", table)

\* the Issues resolve_cross_references appends to self.errors
ResolveIssues(text, table) ==
    UnresolvedIssues(text, "range", table) \o UnresolvedIssues(text, "ref", table)

\* a call of resolve_cross_references(text) on the parser after the run
ResolveCrossReferences ==
    /\ pc = "returned"
    /\ resCalls < MaxResolves
    /\ \E text \in RefTexts :
          /\ resIn' = text
          /\ resOut' = ResolvedText(text, labels)
          /\ errors' = errors \o ResolveIssues(text, labels)
    /\ resErrs' = Len(errors)
    /\ resCalls' = resCalls + 1
    /\ UNCHANGED <<pc, current_paragraph_number, labels, warnings, sections, order,
                   section, current_subsection, current_list, in_list, line_num,
                   linesRead, total_paragraphs, document_type>>

-----------------------------------------------------------------------------
(* LegalDocumentGenerator: the YAML body *)

VARIABLES
    gpc,                        \* position in generate_document
    body,                       \* data['body']
    numbered_paragraphs,        \* style_options['numbered_paragraphs']
    g_labels,                   \* self.labels of the generator
    temp_paragraph_number,      \* _collect_labels: temp_paragraph_number
    g_index,                    \* sections of the body the running pass has done
    g_current_paragraph_number, \* self.current_paragraph_number of the generator
    g_doc                       \* the paragraphs added to self.doc, in order

genVars == <<gpc, body, numbered_paragraphs, g_labels, temp_paragraph_number, g_index,
             g_current_paragraph_number, g_doc>>

\* body sections of one document
MaxSections == 2
\* content items of one body, over all its sections
MaxItems == 3

\* content items; an item without a 'type' key has type "none"
ParagraphItem(data) == [type |-> "paragraph", data |-> data, items |-> <<>>,
                        heading |-> "", content |-> <<>>]
UntypedItem(data)   == [type |-> "none", data |-> data, items |-> <<>>,
                        heading |-> "", content |-> <<>>]
ListItem(items)     == [type |-> "list", data |-> <<>>, items |-> items,
                        heading |-> "", content |-> <<>>]
SectionItem(h, c)   == [type |-> "section", data |-> <<>>, items |-> <<>>,
                        heading |-> h, content |-> c]

\* the content items a body section is made of
ItemSet ==
    { ParagraphItem(<<Txt("Intro"), Label("a")>>),
      ParagraphItem(<<Txt("Fact"), Label("b"), Label("c")>>),
      ParagraphItem(<<Txt("See"), Ref("a"), Txt("and"), RefRange("a", "b"),
                      RefRange("b", "c")>>),
      UntypedItem(<<Txt("Note")>>),
      ListItem(<<  <<Txt("item"), Ref("b")>>  >>),
      SectionItem("Count I", <<ParagraphItem(<<Txt("Claim"), Label("b")>>)>>) }

\* the content lists of exactly n items
RECURSIVE ContentsOfLen(_)
ContentsOfLen(n) ==
    IF n = 0 THEN { <<>> }
    ELSE { Append(c, item) : c \in ContentsOfLen(n - 1), item \in ItemSet }

\* the ways to cut n items into nsec consecutive sections (some may be empty)
CutSeqs(n, nsec) ==
    { q \in [1..(nsec - 1) -> 0..n] : \A i, j \in 1..(nsec - 1) : i <= j => q[i] <= q[j] }

\* the body whose sections are the pieces of content c between the cuts
SplitBody(c, q) ==
    [i \in 1..(Len(q) + 1) |->
        SectionItem("FACTS", SubSeq(c, (IF i = 1 THEN 0 ELSE q[i - 1]) + 1,
                                       IF i = Len(q) + 1 THEN Len(c) ELSE q[i]))]

-----------------------------------------------------------------------------
(* LegalDocumentGenerator: pass 1, _collect_labels *)

\* re.findall(LABEL) on a paragraph's data, each label bound to paragraph_number
BindLabels(data, n, table) ==
    LET names == Range(ExtractLabels(data))
    IN  [l \in DOMAIN table \cup names |-> IF l \in names THEN n ELSE table[l]]

\* _collect_labels_from_section on content[i..]: <<labels, paragraph_number>>
RECURSIVE CollectLabelsFromContent(_, _, _, _)
CollectLabelsFromContent(content, i, n, table) ==
    IF i > Len(content) THEN <<table, n>>
    ELSE IF content[i].type = "paragraph"
    THEN CollectLabelsFromContent(content, i + 1, n + 1, BindLabels(content[i].data, n, table))
    ELSE IF content[i].type = "section"
    THEN LET r == CollectLabelsFromContent(content[i].content, 1, n, table)
         IN  CollectLabelsFromContent(content, i + 1, r[2], r[1])
    ELSE CollectLabelsFromContent(content, i + 1, n, table)

-----------------------------------------------------------------------------
(* LegalDocumentGenerator: pass 2, _generate_body *)

\* replace_range_ref of _resolve_references
GenReplaceRangeRef(tok, table) ==
    IF tok.s \in DOMAIN table /\ tok.e \in DOMAIN table
    THEN IF table[tok.s] = table[tok.e]
         THEN ToString(table[tok.s])
         ELSE ToString(table[tok.s]) \o " through " \o ToString(table[tok.e])
    ELSE "[REF ERROR: " \o tok.s \o ":" \o tok.e \o "]"

\* replace_single_ref of _resolve_references
GenReplaceSingleRef(tok, table) ==
    IF tok.s \in DOMAIN table THEN ToString(table[tok.s])
    ELSE "[REF ERROR: " \o tok.s \o "]"

\* _resolve_references: ranges first, then single references
GenResolveReferences(text, table) ==
    LET ranges == [i \in 1..Len(text) |->
                      IF text[i].t = "range" THEN Txt(GenReplaceRangeRef(text[i], table))
                      ELSE text[i]]
    IN  [i \in 1..Len(ranges) |->
            IF ranges[i].t = "ref" THEN Txt(GenReplaceSingleRef(ranges[i], table))
            ELSE ranges[i]]

\* a slip: one pass, a paragraph sees only the labels bound before it
LabelsReadSoFar(table, n) ==
    [l \in { x \in DOMAIN table : table[x] < n } |-> table[l]]

\* the label table replace_single_ref and replace_range_ref read: self.labels
LabelsRead(table, n) == table

\* _add_paragraph: the paragraph added to the document
AddedParagraph(item, n, numbered, table) ==
    [kind |-> "paragraph",
     number |-> IF numbered THEN n ELSE 0,
     data |-> item.data,
     text |-> CleanContent(GenResolveReferences(item.data, LabelsRead(table, n)))]

\* _add_list: one paragraph per item, the item text as written
AddedList(item) ==
    [i \in 1..Len(item.items) |->
        [kind |-> "list", number |-> 0, data |-> item.items[i], text |-> item.items[i]]]

\* _add_section_heading: level 1 headings are upper-cased
AddedHeading(heading, level) ==
    [kind |-> "heading", number |-> 0, data |-> <<Txt(heading)>>,
     text |-> <<Txt(IF level = 1 THEN Upper(heading) ELSE heading)>>]

\* _generate_section on content[i..]: <<current_paragraph_number, doc>>
RECURSIVE GenerateContent(_, _, _, _, _, _, _)
GenerateContent(content, i, n, doc, numbered, table, level) ==
    IF i > Len(content) THEN <<n, doc>>
    ELSE IF content[i].type \in {"paragraph", "none"}
    THEN GenerateContent(content, i + 1, IF numbered THEN n + 1 ELSE n,
                         Append(doc, AddedParagraph(content[i], n, numbered, table)),
                         numbered, table, level)
    ELSE IF content[i].type = "list"
    THEN GenerateContent(content, i + 1, n, doc \o AddedList(content[i]),
                         numbered, table, level)
    ELSE LET r == GenerateContent(content[i].content, 1, n,
                                  Append(doc, AddedHeading(content[i].heading, level + 1)),
                                  numbered, table, level + 1)
         IN  GenerateContent(content, i + 1, r[1], r[2], numbered, table, level)

-----------------------------------------------------------------------------
(* LegalDocumentGenerator.generate_document *)

\* LegalDocumentGenerator.__init__, with the YAML file to be read
GenConstructed ==
    /\ gpc = "constructed"
    /\ \E nsec \in 1..MaxSections, n \in 0..MaxItems :
          \E c \in ContentsOfLen(n), q \in CutSeqs(n, nsec) : body = SplitBody(c, q)
    /\ numbered_paragraphs \in BOOLEAN
    /\ g_labels = <<>>
    /\ temp_paragraph_number = 0
    /\ g_index = 0
    /\ g_current_paragraph_number = 1
    /\ g_doc = <<>>

\* the generator is not used
GenIdle ==
    /\ gpc = "idle"
    /\ body = <<>>
    /\ numbered_paragraphs = TRUE
    /\ g_labels = <<>>
    /\ temp_paragraph_number = 0
    /\ g_index = 0
    /\ g_current_paragraph_number = 1
    /\ g_doc = <<>>

\* generate_document up to pass 1; _collect_labels sets temp_paragraph_number = 1
CollectLabels ==
    /\ gpc = "constructed"
    /\ gpc' = "pass1"
    /\ temp_paragraph_number' = 1
    /\ g_index' = 0
    /\ UNCHANGED <<body, numbered_paragraphs, g_labels, g_current_paragraph_number, g_doc>>

\* one iteration of "for section in body_sections" of _collect_labels
CollectLabelsFromSection ==
    /\ gpc = "pass1"
    /\ g_index < Len(body)
    /\ LET r == CollectLabelsFromContent(body[g_index + 1].content, 1,
                                         temp_paragraph_number, g_labels)
       IN  /\ g_labels' = r[1]
           /\ temp_paragraph_number' = r[2]
    /\ g_index' = g_index + 1
    /\ UNCHANGED <<gpc, body, numbered_paragraphs, g_current_paragraph_number, g_doc>>

\* a slip: _generate_body begins while sections are still to be collected
GenerateBodyEarly ==
    /\ gpc = "pass1"
    /\ gpc' = "pass2"
    /\ g_index' = 0
    /\ UNCHANGED <<body, numbered_paragraphs, g_labels, temp_paragraph_number,
                   g_current_paragraph_number, g_doc>>

\* pass 1 is over: _generate_body begins
GenerateBody ==
    /\ gpc = "pass1"
    /\ g_index = Len(body)
    /\ gpc' = "pass2"
    /\ g_index' = 0
    /\ UNCHANGED <<body, numbered_paragraphs, g_labels, temp_paragraph_number,
                   g_current_paragraph_number, g_doc>>

\* one iteration of "for section in body_sections" of _generate_body
GenerateSection ==
    /\ gpc = "pass2"
    /\ g_index < Len(body)
    /\ LET sec == body[g_index + 1]
           r   == GenerateContent(sec.content, 1, g_current_paragraph_number,
                                  Append(g_doc, AddedHeading(sec.heading, 1)),
                                  numbered_paragraphs, g_labels, 1)
       IN  /\ g_current_paragraph_number' = r[1]
           /\ g_doc' = r[2]
    /\ g_index' = g_index + 1
    /\ UNCHANGED <<gpc, body, numbered_paragraphs, g_labels, temp_paragraph_number>>

\* pass 2 is over: the document is saved
SaveDocument ==
    /\ gpc = "pass2"
    /\ g_index = Len(body)
    /\ gpc' = "done"
    /\ UNCHANGED <<body, numbered_paragraphs, g_labels, temp_paragraph_number, g_index,
                   g_current_paragraph_number, g_doc>>

-----------------------------------------------------------------------------
(* The parser not in use *)

ParserIdle ==
    /\ pc = "idle"
    /\ current_paragraph_number = 1
    /\ labels = <<>>
    /\ errors = <<>>
    /\ warnings = <<>>
    /\ sections = <<>>
    /\ order = 0
    /\ section = NoSection
    /\ current_subsection = <<>>
    /\ current_list = <<>>
    /\ in_list = FALSE
    /\ line_num = 0
    /\ linesRead = 0
    /\ total_paragraphs = 0
    /\ document_type = ""
    /\ resIn = <<>>
    /\ resOut = <<>>
    /\ resErrs = 0
    /\ resCalls = 0

-----------------------------------------------------------------------------
(* Two runs of parse_document_folder on one parser object, over one folder *)

VARIABLES
    run,       \* parse_document_folder calls made on the parser object
    md_files,  \* parse_document_folder: md_files, as the ids of the files
    folder,    \* the folder: file id -> the non-blank lines of the file
    first      \* what the first call returned, as it was when it returned

runVars == <<run, md_files, folder, first>>

\* the file with id i is named FileName(i): the names are zero-padded, so their
\* lexical order is the order of the ids
NameLess(i, j) == i < j

\* draft_content_dir.glob("*.md"): the n files of the folder in any order
Glob(n) == { g \in [1..n -> 1..n] : \A i, j \in 1..n : i # j => g[i] # g[j] }

\* a slip: the listing is used in the order glob gave it
Unsorted(listing) == listing

\* sorted(...) on the listing
Sorted(listing) == SortSeq(listing, NameLess)

NoResult == [sections |-> <<>>, labels |-> <<>>, errors |-> <<>>, warnings |-> <<>>,
             total_paragraphs |-> 0, files |-> <<>>]

\* the files the sections of the result came from, by document_order
SectionFiles == [i \in 1..Len(sections) |-> md_files[sections[i].document_order]]

\* the result dict of parse_document_folder
Result == [sections |-> sections, labels |-> labels, errors |-> errors,
           warnings |-> warnings, total_paragraphs |-> total_paragraphs,
           files |-> SectionFiles]

RunsIdle ==
    /\ run = 0
    /\ md_files = <<>>
    /\ folder = <<>>
    /\ first = NoResult

\* the first parse_document_folder call, up to the loop over md_files
FirstCall ==
    /\ run = 0
    /\ ParseDocumentFolder
    /\ \E n \in 0..MaxFiles :
          /\ \E g \in Glob(n) : md_files' = Sorted(g)
          /\ folder' = [i \in 1..n |-> <<>>]
    /\ run' = 1
    /\ UNCHANGED first

\* a second parse_document_folder call on the same parser, up to the loop
SecondCall ==
    /\ run = 1
    /\ pc = "returned"
    /\ pc' = "folder"
    /\ sections' = <<>>
    /\ order' = 0
    /\ linesRead' = 0
    /\ \E g \in Glob(Len(md_files)) : md_files' = Sorted(g)
    /\ first' = Result
    /\ run' = 2
    /\ UNCHANGED <<current_paragraph_number, labels, errors, warnings, section,
                   current_subsection, current_list, in_list, line_num,
                   total_paragraphs, document_type, resIn, resOut, resErrs, resCalls,
                   folder>>

\* _parse_markdown_file on the next file of md_files, which is empty or blank
SkipEmptyFile ==
    /\ order < Len(md_files)
    /\ run = 2 => folder[md_files[order + 1]] = <<>>
    /\ OpenEmptyFile
    /\ UNCHANGED runVars

\* _parse_markdown_file on the next file of md_files, which has content
StartFile ==
    /\ order < Len(md_files)
    /\ run = 2 => folder[md_files[order + 1]] # <<>>
    /\ OpenFile
    /\ UNCHANGED runVars

\* the next non-blank line of the file: any line in the first run, the same
\* line again in the second
NextLine ==
    /\ pc = "file"
    /\ LET f == md_files[order]
       IN  IF run = 1
           THEN \E line \in LineSet :
                   /\ ReadLine(line)
                   /\ folder' = [folder EXCEPT ![f] = Append(@, line)]
           ELSE /\ line_num < Len(folder[f])
                /\ ReadLine(folder[f][line_num + 1])
                /\ UNCHANGED folder
    /\ UNCHANGED <<run, md_files, first>>

\* the file has no more lines
EndFile ==
    /\ pc = "file"
    /\ run = 2 => line_num = Len(folder[md_files[order]])
    /\ CloseFile
    /\ UNCHANGED runVars

\* md_files is exhausted: validation and return; the second call is made with
\* the document type of the first
Return ==
    /\ order = Len(md_files)
    /\ ValidateAndReturn
    /\ run = 2 => (pc' = "returned" /\ document_type' = document_type)
    /\ UNCHANGED runVars

-----------------------------------------------------------------------------
(* FormatValidator (format_validator.py): validate_document_folder *)

VARIABLES
    vpc,               \* position of the caller of the validator
    validation_level,  \* self.validation_level
    line_length_max,   \* validation_rules quality_standards.line_length.max
    v_document_type,   \* validate_document_folder: document_type
    v_errors,          \* self.errors of the validator
    v_md_files,        \* the files validated so far, in the order of md_files
    report             \* the report validate_document_folder returns

valVars == <<vpc, validation_level, line_length_max, v_document_type, v_errors,
             v_md_files, report>>

\* raw lines read in one validation run, over all files
MaxValLines == 2

\* the default of .get('max', 120)
DefaultLineLength == 120

\* the values of line_length.max: not configured, or configured as 80
LineLengthRules == {DefaultLineLength, 80}

\* a raw line, by what the checks look at: its length in characters, its number
\* of words, and what the patterns of the checks find in it
PlainLine(len, words) ==
    [len |-> len, words |-> words, plainNumber |-> FALSE, boldNumber |-> FALSE,
     starNumber |-> FALSE, header |-> 0, lowerHeader |-> FALSE, longHeader |-> FALSE,
     statute |-> FALSE, caseName |-> FALSE, badLabels |-> <<>>, badRefs |-> <<>>,
     weak |-> <<>>]

\* the raw lines a file is made of
RawLineSet ==
    { PlainLine(40, 8),
      PlainLine(121, 1),
      [PlainLine(121, 20) EXCEPT !.plainNumber = TRUE, !.weak = <<"clearly">>],
      [PlainLine(120, 3) EXCEPT !.header = 4, !.lowerHeader = TRUE],
      [PlainLine(81, 12) EXCEPT !.boldNumber = TRUE, !.starNumber = TRUE,
                                !.badLabels = <<"Bad-Name">>, !.badRefs = <<"X1">>] }

\* the required subfolders the folder may lack
MissingSubfolders == { <<>>, <<"research">> }

\* metadata_requirements.required_fields of validation_rules.yml
RequiredFields == <<"document_info.type">>

ValidationError(file, ln, type, message, severity) ==
    [file_path |-> file, line_number |-> ln, error_type |-> type, message |-> message,
     severity |-> severity]

\* _validate_folder_structure: one Issue per missing subfolder
FolderStructureIssues(missing, level) ==
    [i \in 1..Len(missing) |->
        IF level = "strict"
        THEN ValidationError("folder", 0, "folder_structure",
                             "Missing required subfolder: " \o missing[i], "error")
        ELSE ValidationError("folder", 0, "folder_structure",
                             "Missing recommended subfolder: " \o missing[i], "warning")]

\* _validate_metadata: one Issue per required field the metadata lacks
MetadataIssues(dt) ==
    LET lacking == IF dt = "unknown" THEN RequiredFields ELSE <<>>
    IN  [i \in 1..Len(lacking) |->
            ValidationError("metadata.yml", 0, "metadata",
                            "Missing required metadata field: " \o lacking[i], "error")]

\* a slip: one line_length Issue per word of a line that is too long
LineLengthIssuesPerWord(line, file, ln, max) ==
    IF line.len > max
    THEN [i \in 1..line.words |->
             ValidationError(file, ln, "line_length",
                 "Line exceeds maximum length (" \o ToString(line.len) \o " characters)",
                 "warning")]
    ELSE <<>>

\* "Check line length"
LineLengthIssues(line, file, ln, max) ==
    IF line.len > max
    THEN << ValidationError(file, ln, "line_length",
                "Line exceeds maximum length (" \o ToString(line.len) \o " characters)",
                "warning") >>
    ELSE <<>>

\* _validate_paragraph_numbering
ParagraphNumberingIssues(line, file, ln) ==
    (IF line.plainNumber
     THEN << ValidationError(file, ln, "paragraph_numbering",
                 "Paragraph numbers must be bold: **1.** not 1.", "error") >>
     ELSE <<>>)
    \o (IF ~line.boldNumber /\ line.starNumber
        THEN << ValidationError(file, ln, "paragraph_numbering",
                    "Use double asterisks for bold: **1.** not *1*", "error") >>
        ELSE <<>>)

\* _validate_headers
HeaderIssues(line, file, ln) ==
    IF line.header = 0 THEN <<>>
    ELSE (IF line.header > 3
          THEN << ValidationError(file, ln, "headers",
                      "Headers deeper than H3 (###) are not allowed (found H"
                          \o ToString(line.header) \o ")", "error") >>
          ELSE <<>>)
         \o (IF line.lowerHeader
             THEN << ValidationError(file, ln, "headers",
                         "Headers must start with uppercase letters", "warning") >>
             ELSE <<>>)
         \o (IF line.longHeader
             THEN << ValidationError(file, ln, "headers",
                         "Header exceeds maximum length of 80 characters", "warning") >>
             ELSE <<>>)

\* _validate_legal_citations
CitationIssues(line, file, ln) ==
    (IF line.statute
     THEN << ValidationError(file, ln, "legal_citations",
                 "Statutes must be bold: **15 U.S.C. § 1681n**", "error") >>
     ELSE <<>>)
    \o (IF line.caseName
        THEN << ValidationError(file, ln, "legal_citations",
                    "Case names must be italic: *Smith v. Jones*", "warning") >>
        ELSE <<>>)

\* _validate_cross_references
CrossReferenceIssues(line, file, ln) ==
    [i \in 1..Len(line.badLabels) |->
        ValidationError(file, ln, "cross_references",
            "Label names must be lowercase with underscores: {{LABEL:"
                \o line.badLabels[i] \o "}}", "error")]
    \o [i \in 1..Len(line.badRefs) |->
          ValidationError(file, ln, "cross_references",
              "Reference names must be lowercase with underscores: {{REF:"
                  \o line.badRefs[i] \o "}}", "error")]

\* _check_prohibited_words
ProhibitedWordIssues(line, file, ln) ==
    [i \in 1..Len(line.weak) |->
        ValidationError(file, ln, "language",
            "Avoid weak modifier: '" \o line.weak[i] \o "'", "warning")]

\* the body of the loop of _validate_markdown_file on one line
LineIssues(line, file, ln, max) ==
    LineLengthIssues(line, file, ln, max)
        \o ParagraphNumberingIssues(line, file, ln)
        \o HeaderIssues(line, file, ln)
        \o CitationIssues(line, file, ln)
        \o CrossReferenceIssues(line, file, ln)
        \o ProhibitedWordIssues(line, file, ln)

\* a slip: the loop over the lines ends at the first line that has an Issue
RECURSIVE FileIssuesUntilFirst(_, _, _, _)
FileIssuesUntilFirst(lines, file, ln, max) ==
    IF ln > Len(lines) THEN <<>>
    ELSE IF LineIssues(lines[ln], file, ln, max) # <<>>
    THEN << LineIssues(lines[ln], file, ln, max)[1] >>
    ELSE FileIssuesUntilFirst(lines, file, ln + 1, max)

\* _validate_markdown_file: "for line_num, line in enumerate(lines, 1)", from
\* line ln on
RECURSIVE FileIssues(_, _, _, _)
FileIssues(lines, file, ln, max) ==
    IF ln > Len(lines) THEN <<>>
    ELSE LineIssues(lines[ln], file, ln, max) \o FileIssues(lines, file, ln + 1, max)

\* the name of the i-th file of md_files
ValFileName(i, prefixed) ==
    IF prefixed THEN "0" \o ToString(i) \o "_part.md" ELSE "part" \o ToString(i) \o ".md"

\* _validate_document_structure of the validator: the file naming convention
FileNamingIssues(files, dt) ==
    IF dt \notin KnownTypes THEN <<>>
    ELSE LET bad == SelectSeq(files, LAMBDA f : ~f.prefixed)
         IN  [i \in 1..Len(bad) |->
                 ValidationError(bad[i].name, 0, "file_naming",
                     "Files should use numbered prefixes: 01_, 02_, etc.", "warning")]

IsError(e) == e.severity = "error"

IsWarning(e) == e.severity = "warning"

\* _generate_report
GenerateReport(issues, level) ==
    [is_valid |-> Len(SelectSeq(issues, IsError)) = 0,
     total_issues |-> Len(issues),
     errors |-> Len(SelectSeq(issues, IsError)),
     warnings |-> Len(SelectSeq(issues, IsWarning)),
     validation_level |-> level,
     issues |-> [i \in 1..Len(issues) |->
                    [file |-> issues[i].file_path, line |-> issues[i].line_number,
                     type |-> issues[i].error_type, message |-> issues[i].message,
                     severity |-> issues[i].severity]]]

NoReport == [is_valid |-> TRUE, total_issues |-> 0, errors |-> 0, warnings |-> 0,
             validation_level |-> "", issues |-> <<>>]

\* the lines of the files validated so far
LinesValidated ==
    LET RECURSIVE total(_)
        total(i) == IF i = 0 THEN 0 ELSE Len(v_md_files[i].lines) + total(i - 1)
    IN  total(Len(v_md_files))

ValIdle ==
    /\ vpc = "idle"
    /\ validation_level = "standard"
    /\ line_length_max = DefaultLineLength
    /\ v_document_type = ""
    /\ v_errors = <<>>
    /\ v_md_files = <<>>
    /\ report = NoReport

\* FormatValidator.__init__
ValConstructed ==
    /\ vpc = "constructed"
    /\ validation_level \in {"strict", "standard"}
    /\ line_length_max \in LineLengthRules
    /\ v_document_type = ""
    /\ v_errors = <<>>
    /\ v_md_files = <<>>
    /\ report = NoReport

\* validate_document_folder up to the loop over md_files
ValidateDocumentFolder ==
    /\ vpc = "constructed"
    /\ \E dt \in {"unknown", "complaint"}, missing \in MissingSubfolders :
          /\ v_document_type' = dt
          /\ v_errors' = FolderStructureIssues(missing, validation_level)
                             \o MetadataIssues(dt)
    /\ v_md_files' = <<>>
    /\ vpc' = "files"
    /\ UNCHANGED <<validation_level, line_length_max, report>>

\* _validate_markdown_file on the next file of md_files
ValidateMarkdownFile ==
    /\ vpc = "files"
    /\ Len(v_md_files) < MaxFiles
    /\ \E n \in 0..(MaxValLines - LinesValidated), prefixed \in BOOLEAN :
          \E lines \in [1..n -> RawLineSet] :
             LET name == ValFileName(Len(v_md_files) + 1, prefixed)
             IN  /\ v_md_files' = Append(v_md_files,
                        [name |-> name, prefixed |-> prefixed, lines |-> lines])
                 /\ v_errors' = v_errors \o FileIssues(lines, name, 1, line_length_max)
    /\ UNCHANGED <<vpc, validation_level, line_length_max, v_document_type, report>>

\* _validate_document_structure and _generate_report
ValidateStructureAndReport ==
    /\ vpc = "files"
    /\ LET issues == v_errors \o FileNamingIssues(v_md_files, v_document_type)
       IN  /\ v_errors' = issues
           /\ report' = GenerateReport(issues, validation_level)
    /\ vpc' = "reported"
    /\ UNCHANGED <<validation_level, line_length_max, v_document_type, v_md_files>>

-----------------------------------------------------------------------------
(* convert_p_format.py: convert_p_format_in_file *)

VARIABLES
    cpc,        \* position of the caller of convert_p_format_in_file
    content,    \* the text of the file
    changes,    \* what the last call returned
    converted,  \* the text of the file after the first call
    conv_calls  \* convert_p_format_in_file calls made on the file

convVars == <<cpc, content, changes, converted, conv_calls>>

\* symbols of a file's text
MaxText == 7

\* the symbols of a text: a pair of asterisks, the letter P, a digit, other text
Symbols == {"**", "P", "1", "."}

\* the texts of exactly n symbols
RECURSIVE TextsOfLen(_)
TextsOfLen(n) ==
    IF n = 0 THEN { <<>> }
    ELSE { Append(t, c) : t \in TextsOfLen(n - 1), c \in Symbols }

\* the end of the run of digits (\d+, greedy) that begins at i, or i - 1
RECURSIVE DigitsEnd(_, _)
DigitsEnd(text, i) ==
    IF i <= Len(text) /\ text[i] = "1" THEN DigitsEnd(text, i + 1) ELSE i - 1

\* does \*\*P(\d+)\*\* match at position i?
MatchesAt(text, i) ==
    /\ i + 3 <= Len(text)
    /\ text[i] = "**"
    /\ text[i + 1] = "P"
    /\ DigitsEnd(text, i + 2) >= i + 2
    /\ DigitsEnd(text, i + 2) + 1 <= Len(text)
    /\ text[DigitsEnd(text, i + 2) + 1] = "**"

\* replace_p_format: **P<number>** becomes **<number>.**
ReplacePFormat(text, i) ==
    <<"**">> \o SubSeq(text, i + 2, DigitsEnd(text, i + 2)) \o <<".", "**">>

\* re.sub(r'\*\*P(\d+)\*\*', replace_p_format, content) from position i on:
\* leftmost matches that do not overlap
RECURSIVE SubPFormat(_, _)
SubPFormat(text, i) ==
    IF i > Len(text) THEN <<>>
    ELSE IF MatchesAt(text, i)
    THEN ReplacePFormat(text, i) \o SubPFormat(text, DigitsEnd(text, i + 2) + 2)
    ELSE <<text[i]>> \o SubPFormat(text, i + 1)

\* len(re.findall(r'\*\*P\d+\*\*', original_content)) from position i on
RECURSIVE CountPFormat(_, _)
CountPFormat(text, i) ==
    IF i > Len(text) THEN 0
    ELSE IF MatchesAt(text, i) THEN 1 + CountPFormat(text, DigitsEnd(text, i + 2) + 2)
    ELSE CountPFormat(text, i + 1)

ConvIdle ==
    /\ cpc = "idle"
    /\ content = <<>>
    /\ changes = 0
    /\ converted = <<>>
    /\ conv_calls = 0

\* a markdown file of the folder
ConvFile ==
    /\ cpc = "file"
    /\ \E n \in 0..MaxText : content \in TextsOfLen(n)
    /\ changes = 0
    /\ converted = <<>>
    /\ conv_calls = 0

\* convert_p_format_in_file on the file
ConvertPFormatInFile ==
    /\ cpc = "file"
    /\ conv_calls < 2
    /\ content' = SubPFormat(content, 1)
    /\ changes' = CountPFormat(content, 1)
    /\ converted' = IF conv_calls = 0 THEN SubPFormat(content, 1) ELSE converted
    /\ conv_calls' = conv_calls + 1
    /\ UNCHANGED cpc

-----------------------------------------------------------------------------
(* legal_workspace_manager.py: the session workspace managers *)

VARIABLES
    configs,      \* the OpenHandsConfig objects: identity |-> fields
    config0,      \* the fields of every config object when it was created
    heap,         \* the LegalWorkspaceManager objects: identity |-> fields
    managers,     \* _legal_workspace_managers: session id |-> manager identity
    environ,      \* os.environ: WORKSPACE_BASE and OH_CASE_WORKSPACE
    ws_last,      \* the last call made: its name and the session it was made for
    ws_ops        \* calls made so far

wsVars == <<configs, config0, heap, managers, environ, ws_last, ws_ops>>

\* calls made on the workspace managers
MaxWsOps == 5

None == "None"

Sessions == {"session_a", "session_b"}

Cases == {"case_001", "case_002"}

\* FileLegalCaseStore.get_case_workspace_path: the case's draft_system folder
WorkspacePath(case_id) ==
    IF case_id = "case_001" THEN "/cases/case_001/draft_system"
    ELSE "/cases/case_002/draft_system"

\* a mount "host:target:mode" of sandbox.volumes
Mount(host, target, mode) == [host |-> host, target |-> target, mode |-> mode]

\* f"{workspace_path}:/workspace:rw"
CaseMount(workspace_path) == Mount(workspace_path, "/workspace", "rw")

\* v.strip().endswith(':/workspace:rw') or v.strip().endswith(':/workspace')
IsWorkspaceMount(v) == v.target = "/workspace" /\ v.mode \in {"rw", ""}

\* sandbox.volumes unset: None, and '' which the code treats alike
NoVolumes == <<>>

\* sandbox.volumes of the application: unset, or a comma-separated list of mounts
OriginalVolumes ==
    { NoVolumes,
      <<Mount("/data", "/data", "rw")>>,
      <<Mount("/host", "/workspace", "rw")>>,
      <<Mount("/data", "/data", "rw"), Mount("/host", "/workspace", "rw")>> }

\* the truth value of sandbox.volumes: None and '' are false
HasVolumes(volumes) == volumes # NoVolumes

\* [v for v in volumes if not a workspace mount]
RECURSIVE WithoutWorkspaceMounts(_)
WithoutWorkspaceMounts(volumes) ==
    IF volumes = <<>> THEN <<>>
    ELSE (IF IsWorkspaceMount(Head(volumes)) THEN <<>> ELSE <<Head(volumes)>>)
             \o WithoutWorkspaceMounts(Tail(volumes))

\* sandbox.volumes after _update_workspace_config
CaseVolumes(volumes, workspace_path) ==
    IF HasVolumes(volumes)
    THEN Append(WithoutWorkspaceMounts(volumes), CaseMount(workspace_path))
    ELSE <<CaseMount(workspace_path)>>

\* sandbox.volumes after exit_case_workspace
ExitVolumes(volumes) ==
    IF HasVolumes(volumes)
    THEN (IF WithoutWorkspaceMounts(volumes) # <<>>
          THEN WithoutWorkspaceMounts(volumes) ELSE NoVolumes)
    ELSE volumes

\* the identity of the application's config object
AppConfig == 0

\* a slip: the session's manager works on the config object it was given
SharedConfig(config, fresh) == config

\* config.model_copy(deep=True): a new object
SessionConfig(config, fresh) == fresh

\* LegalWorkspaceManager.__init__
NewManager(config, session_id, cfgs) ==
    [ config |-> config,
      session_id |-> session_id,
      case_store |-> FALSE,
      current_case_id |-> None,
      original_workspace_base |-> cfgs[config].workspace_base,
      original_runtime |-> cfgs[config].runtime ]

\* get_legal_workspace_manager finds no manager: None
NoManager == 0

\* get_legal_workspace_manager(session_id)
GetLegalWorkspaceManager(session_id) ==
    IF session_id \in DOMAIN managers THEN managers[session_id] ELSE NoManager

\* is_in_case_workspace of the manager m
IsInCaseWorkspace(m) == heap[m].current_case_id # None

\* get_workspace_info with the runtime: what a session sees through its manager
WorkspaceInfo(m) ==
    [ session_id |-> heap[m].session_id,
      current_case_id |-> heap[m].current_case_id,
      workspace_base |-> configs[heap[m].config].workspace_base,
      runtime |-> configs[heap[m].config].runtime,
      sandbox_volumes |-> configs[heap[m].config].volumes ]

NoCall == [op |-> "none", session_id |-> None]

WsIdle ==
    /\ configs = <<>>
    /\ config0 = <<>>
    /\ heap = <<>>
    /\ managers = <<>>
    /\ environ = [WORKSPACE_BASE |-> None, OH_CASE_WORKSPACE |-> None]
    /\ ws_last = NoCall
    /\ ws_ops = 0

\* the server with its application config, before any session
WsStarted ==
    /\ \E workspace_base \in {None, "/base"}, runtime \in {"docker", "local"},
          volumes \in OriginalVolumes :
           configs = (AppConfig :> [workspace_base |-> workspace_base,
                                    runtime |-> runtime, volumes |-> volumes])
    /\ config0 = configs
    /\ heap = <<>>
    /\ managers = <<>>
    /\ environ = [WORKSPACE_BASE |-> None, OH_CASE_WORKSPACE |-> None]
    /\ ws_last = NoCall
    /\ ws_ops = 0

Called(op, session_id) ==
    /\ ws_ops < MaxWsOps
    /\ ws_ops' = ws_ops + 1
    /\ ws_last' = [op |-> op, session_id |-> session_id]

\* initialize_legal_workspace_manager(config, session_id)
InitializeLegalWorkspaceManagerFor(session_id) ==
    LET c == SessionConfig(AppConfig, ws_ops + 1)
        m == ws_ops + 1
    IN  /\ Called("initialize_legal_workspace_manager", session_id)
        /\ configs' = IF c \in DOMAIN configs THEN configs
                      ELSE (c :> configs[AppConfig]) @@ configs
        /\ config0' = IF c \in DOMAIN configs THEN config0
                      ELSE (c :> configs[AppConfig]) @@ config0
        /\ heap' = (m :> NewManager(c, session_id, configs')) @@ heap
        /\ managers' = (session_id :> m) @@ managers
        /\ UNCHANGED environ

InitializeLegalWorkspaceManager ==
    \E session_id \in Sessions : InitializeLegalWorkspaceManagerFor(session_id)

\* LegalWorkspaceManager.initialize on the manager of a session
InitializeFor(session_id) ==
    /\ session_id \in DOMAIN managers
    /\ LET m == managers[session_id]
           base == configs[heap[m].config].workspace_base
       IN  /\ ~heap[m].case_store
           /\ Called("initialize", session_id)
           /\ heap' = [heap EXCEPT ![m].case_store = TRUE,
                          ![m].original_workspace_base =
                              IF @ = None THEN base ELSE @]
    /\ UNCHANGED <<configs, config0, managers, environ>>

Initialize == \E session_id \in Sessions : InitializeFor(session_id)

\* enter_case_workspace(case_id) on the manager of a session
EnterCaseWorkspaceFor(session_id, case_id) ==
    /\ session_id \in DOMAIN managers
    /\ LET m == managers[session_id]
           c == heap[m].config
           path == WorkspacePath(case_id)
       IN  /\ heap[m].case_store
           /\ Called("enter_case_workspace", session_id)
           /\ configs' = [configs EXCEPT ![c] =
                             [ workspace_base |-> path,
                               runtime |-> "local",
                               volumes |-> CaseVolumes(@.volumes, path) ]]
           /\ environ' = [WORKSPACE_BASE |-> path, OH_CASE_WORKSPACE |-> path]
           /\ heap' = [heap EXCEPT ![m].current_case_id = case_id]
    /\ UNCHANGED <<config0, managers>>

EnterCaseWorkspace ==
    \E session_id \in Sessions, case_id \in Cases :
        EnterCaseWorkspaceFor(session_id, case_id)

\* what exit_case_workspace does to the manager m when it is in a case
Exited(m, cfgs) ==
    [cfgs EXCEPT ![heap[m].config] =
        [ workspace_base |-> heap[m].original_workspace_base,
          runtime |-> heap[m].original_runtime,
          volumes |-> ExitVolumes(@.volumes) ]]

\* os.environ after exit_case_workspace
ExitedEnviron(m) ==
    [environ EXCEPT !.WORKSPACE_BASE = heap[m].original_workspace_base]

\* exit_case_workspace on the manager of a session
ExitCaseWorkspaceFor(session_id) ==
    /\ session_id \in DOMAIN managers
    /\ Called("exit_case_workspace", session_id)
    /\ LET m == managers[session_id]
       IN  IF IsInCaseWorkspace(m)
           THEN /\ configs' = Exited(m, configs)
                /\ environ' = ExitedEnviron(m)
                /\ heap' = [heap EXCEPT ![m].current_case_id = None]
           ELSE UNCHANGED <<configs, environ, heap>>
    /\ UNCHANGED <<config0, managers>>

ExitCaseWorkspace == \E session_id \in Sessions : ExitCaseWorkspaceFor(session_id)

\* cleanup_legal_workspace_manager(session_id); the exit task it creates for a
\* manager in a case runs, or is not created when no event loop is running
CleanupLegalWorkspaceManagerFor(session_id) ==
    /\ session_id \in DOMAIN managers
    /\ Called("cleanup_legal_workspace_manager", session_id)
    /\ LET m == managers[session_id]
       IN  \/ UNCHANGED <<configs, environ, heap>>
           \/ /\ IsInCaseWorkspace(m)
              /\ configs' = Exited(m, configs)
              /\ environ' = ExitedEnviron(m)
              /\ heap' = [heap EXCEPT ![m].current_case_id = None]
    /\ managers' = [s \in DOMAIN managers \ {session_id} |-> managers[s]]
    /\ UNCHANGED config0

CleanupLegalWorkspaceManager ==
    \E session_id \in Sessions : CleanupLegalWorkspaceManagerFor(session_id)

-----------------------------------------------------------------------------
(* generate_final_document.py: FinalDocumentGenerator.generate_documents *)

VARIABLES
    fd_pc,            \* position of every generate_documents run
    fd_formats,       \* formats of every run
    preview_file,     \* the content of html_preview/draft-preview.html
    preview_content,  \* generate_documents: preview_content of every run
    generated_files   \* every run: the HTML its PDF and its DOCX were made from

fdVars == <<fd_pc, fd_formats, preview_file, preview_content, generated_files>>

\* generate_documents runs that may interleave, each on a folder of its own
MaxRuns == 2

FdRuns == 1..MaxRuns

\* the document folder of a run: different runs work on different folders
DocumentFolder(r) == "documents/folder_" \o ToString(r)

\* the HTML generate_preview makes of a document folder
HtmlContent(document_folder) == "<html>" \o document_folder \o "</html>"

\* the formats argument of main
Formats == {"pdf", "docx", "both"}

NotGenerated == [pdf |-> "", docx |-> ""]

FdIdle ==
    /\ fd_pc = <<>>
    /\ fd_formats = <<>>
    /\ preview_file = ""
    /\ preview_content = <<>>
    /\ generated_files = <<>>

\* the runs have been asked for; the preview of an earlier run may be on disk
FdConstructed ==
    /\ fd_pc = [r \in FdRuns |-> "called"]
    /\ fd_formats \in [FdRuns -> Formats]
    /\ preview_file \in {"", HtmlContent("documents/earlier")}
    /\ preview_content = [r \in FdRuns |-> ""]
    /\ generated_files = [r \in FdRuns |-> NotGenerated]

\* generate_preview up to open(self.preview_file, 'w'): the file is truncated
OpenPreviewFileOf(r) ==
    /\ fd_pc[r] = "called"
    /\ preview_file' = ""
    /\ fd_pc' = [fd_pc EXCEPT ![r] = "writing"]
    /\ UNCHANGED <<fd_formats, preview_content, generated_files>>

OpenPreviewFile == \E r \in FdRuns : OpenPreviewFileOf(r)

\* generate_preview: f.write(html_content), the file is closed and its path returned
WritePreviewOf(r) ==
    /\ fd_pc[r] = "writing"
    /\ preview_file' = HtmlContent(DocumentFolder(r))
    /\ fd_pc' = [fd_pc EXCEPT ![r] = "generated"]
    /\ UNCHANGED <<fd_formats, preview_content, generated_files>>

WritePreview == \E r \in FdRuns : WritePreviewOf(r)

\* generate_documents reads the preview back; an empty preview raises ValueError
ReadPreviewOf(r) ==
    /\ fd_pc[r] = "generated"
    /\ preview_content' = [preview_content EXCEPT ![r] = preview_file]
    /\ fd_pc' = [fd_pc EXCEPT ![r] = IF preview_file = "" THEN "raised" ELSE "read"]
    /\ UNCHANGED <<fd_formats, preview_file, generated_files>>

ReadPreview == \E r \in FdRuns : ReadPreviewOf(r)

\* _generate_pdf, when the formats ask for it: made from self.preview_file
GeneratePdfOf(r) ==
    /\ fd_pc[r] = "read"
    /\ generated_files' =
           IF fd_formats[r] \in {"pdf", "both"}
           THEN [generated_files EXCEPT ![r].pdf = preview_file]
           ELSE generated_files
    /\ fd_pc' = [fd_pc EXCEPT ![r] = "pdf"]
    /\ UNCHANGED <<fd_formats, preview_file, preview_content>>

GeneratePdf == \E r \in FdRuns : GeneratePdfOf(r)

\* _generate_docx, when the formats ask for it, and return generated_files
GenerateDocxOf(r) ==
    /\ fd_pc[r] = "pdf"
    /\ generated_files' =
           IF fd_formats[r] \in {"docx", "both"}
           THEN [generated_files EXCEPT ![r].docx = preview_file]
           ELSE generated_files
    /\ fd_pc' = [fd_pc EXCEPT ![r] = "returned"]
    /\ UNCHANGED <<fd_formats, preview_file, preview_content>>

GenerateDocx == \E r \in FdRuns : GenerateDocxOf(r)

-----------------------------------------------------------------------------
(* draft_watcher.py: DraftFileHandler, the debounce of one draft file *)

VARIABLES
    ob_pc,            \* position of the observer thread in on_modified
    db_events,        \* on_modified events the observer thread has taken up
    debounce_timers,  \* self._debounce_timers: the file's entry, a timer or NoTimer
    timers,           \* the threading.Timer objects created, by identity
    handled,          \* the _handle_content_change runs, in the order they ended
    burst             \* has every event come before the previous timer finished?

dbVars == <<ob_pc, db_events, debounce_timers, timers, handled, burst>>

\* on_modified events for the file
MaxEvents == 3

\* no entry for the file in self._debounce_timers
NoTimer == 0

\* Timer.cancel(): a timer that is waiting will not call its function; one that
\* has begun to call it, or has ended, is not affected
Cancel(state) == IF state \in {"created", "waiting"} THEN "cancelled" ELSE state

DbIdle ==
    /\ ob_pc = "none"
    /\ db_events = 0
    /\ debounce_timers = NoTimer
    /\ timers = <<>>
    /\ handled = <<>>
    /\ burst = TRUE

\* DraftFileHandler.__init__, the observer is running
DbConstructed ==
    /\ ob_pc = "idle"
    /\ db_events = 0
    /\ debounce_timers = NoTimer
    /\ timers = <<>>
    /\ handled = <<>>
    /\ burst = TRUE

\* on_modified for the .md file, up to "if file_path in self._debounce_timers"
OnModified ==
    /\ ob_pc = "idle"
    /\ db_events < MaxEvents
    /\ db_events' = db_events + 1
    /\ burst' = (burst /\ (timers = <<>> \/ timers[Len(timers)] # "finished"))
    /\ ob_pc' = IF debounce_timers # NoTimer THEN "cancel" ELSE "create"
    /\ UNCHANGED <<debounce_timers, timers, handled>>

\* self._debounce_timers[file_path].cancel(): KeyError when the entry was
\* popped since the test, and the observer thread ends
CancelTimer ==
    /\ ob_pc = "cancel"
    /\ IF debounce_timers = NoTimer
       THEN /\ ob_pc' = "raised"
            /\ UNCHANGED timers
       ELSE /\ timers' = [timers EXCEPT ![debounce_timers] = Cancel(@)]
            /\ ob_pc' = "create"
    /\ UNCHANGED <<db_events, debounce_timers, handled, burst>>

\* timer = threading.Timer(...); self._debounce_timers[file_path] = timer
StoreTimer ==
    /\ ob_pc = "create"
    /\ timers' = Append(timers, "created")
    /\ debounce_timers' = Len(timers) + 1
    /\ ob_pc' = "start"
    /\ UNCHANGED <<db_events, handled, burst>>

\* timer.start()
StartTimer ==
    /\ ob_pc = "start"
    /\ timers' = [timers EXCEPT ![Len(timers)] = IF @ = "created" THEN "waiting" ELSE @]
    /\ ob_pc' = "idle"
    /\ UNCHANGED <<db_events, debounce_timers, handled, burst>>

\* the delay of a waiting timer is over: its thread calls _handle_content_change
TimerFires ==
    \E t \in DOMAIN timers :
        /\ timers[t] = "waiting"
        /\ timers' = [timers EXCEPT ![t] = "firing"]
        /\ UNCHANGED <<ob_pc, db_events, debounce_timers, handled, burst>>

\* _handle_content_change: self._debounce_timers.pop(file_path, None)
PopTimer ==
    \E t \in DOMAIN timers :
        /\ timers[t] = "firing"
        /\ timers' = [timers EXCEPT ![t] = "popped"]
        /\ debounce_timers' = NoTimer
        /\ UNCHANGED <<ob_pc, db_events, handled, burst>>

\* _handle_content_change after the pop: the file is read and the observation made
HandleContentChange ==
    \E t \in DOMAIN timers :
        /\ timers[t] = "popped"
        /\ timers' = [timers EXCEPT ![t] = "finished"]
        /\ handled' = Append(handled, [timer |-> t, events |-> db_events])
        /\ UNCHANGED <<ob_pc, db_events, debounce_timers, burst>>

-----------------------------------------------------------------------------
(* draft_watcher.py: DraftWatcher *)

VARIABLES
    observer,       \* self.observer: None or the running Observer
    scheduled,      \* the handlers scheduled on the observer, per case directory
    watched_cases,  \* self.watched_cases
    case_dirs,      \* the cases whose directory exists under workspace_root/cases
    dw_ops          \* calls made on the watcher

dwVars == <<observer, scheduled, watched_cases, case_dirs, dw_ops>>

\* calls made on the watcher
MaxDwOps == 6

WatchCases == {"101", "102"}

\* no handler is scheduled
NoHandlers == [c \in WatchCases |-> 0]

DwIdle ==
    /\ observer = None
    /\ scheduled = NoHandlers
    /\ watched_cases = {}
    /\ case_dirs = {}
    /\ dw_ops = 0

\* DraftWatcher.__init__
DwConstructed ==
    /\ observer = None
    /\ scheduled = NoHandlers
    /\ watched_cases = {}
    /\ case_dirs \in SUBSET WatchCases
    /\ dw_ops = 0

DwCalled ==
    /\ dw_ops < MaxDwOps
    /\ dw_ops' = dw_ops + 1

\* start(): a new Observer unless one is running
Start ==
    /\ DwCalled
    /\ IF observer # None
       THEN UNCHANGED <<observer, scheduled>>
       ELSE /\ observer' = "Observer"
            /\ scheduled' = NoHandlers
    /\ UNCHANGED <<watched_cases, case_dirs>>

\* stop(): the observer is stopped and dropped with the handlers scheduled on it
Stop ==
    /\ DwCalled
    /\ IF observer = None
       THEN UNCHANGED <<observer, scheduled>>
       ELSE /\ observer' = None
            /\ scheduled' = NoHandlers
    /\ UNCHANGED <<watched_cases, case_dirs>>

\* watch_case(case_id); self.observer.schedule raises AttributeError when the
\* watcher was not started
WatchCaseOf(case_id) ==
    /\ DwCalled
    /\ IF case_id \in watched_cases \/ case_id \notin case_dirs \/ observer = None
       THEN UNCHANGED <<scheduled, watched_cases>>
       ELSE /\ scheduled' = [scheduled EXCEPT ![case_id] = @ + 1]
            /\ watched_cases' = watched_cases \cup {case_id}
    /\ UNCHANGED <<observer, case_dirs>>

WatchCase == \E case_id \in WatchCases : WatchCaseOf(case_id)

\* unwatch_case(case_id): the case is only removed from the tracking set
UnwatchCaseOf(case_id) ==
    /\ DwCalled
    /\ watched_cases' = watched_cases \ {case_id}
    /\ UNCHANGED <<observer, scheduled, case_dirs>>

UnwatchCase == \E case_id \in WatchCases : UnwatchCaseOf(case_id)

-----------------------------------------------------------------------------
(* Specifications *)

vars == <<parserVars, genVars, runVars, valVars, convVars, wsVars, fdVars, dbVars, dwVars>>

\* a run of parse_document_folder on a new parser, then resolve_cross_references
Init == Constructed /\ GenIdle /\ RunsIdle /\ ValIdle /\ ConvIdle /\ WsIdle /\ FdIdle /\ DbIdle /\ DwIdle

Next ==
    \/ ParseDocumentFolder /\ UNCHANGED <<genVars, runVars, valVars, convVars, wsVars, fdVars, dbVars, dwVars>>
    \/ OpenEmptyFile /\ UNCHANGED <<genVars, runVars, valVars, convVars, wsVars, fdVars, dbVars, dwVars>>
    \/ OpenFile /\ UNCHANGED <<genVars, runVars, valVars, convVars, wsVars, fdVars, dbVars, dwVars>>
    \/ ParseLine /\ UNCHANGED <<genVars, runVars, valVars, convVars, wsVars, fdVars, dbVars, dwVars>>
    \/ CloseFile /\ UNCHANGED <<genVars, runVars, valVars, convVars, wsVars, fdVars, dbVars, dwVars>>
    \/ ValidateAndReturn /\ UNCHANGED <<genVars, runVars, valVars, convVars, wsVars, fdVars, dbVars, dwVars>>
    \/ ResolveCrossReferences /\ UNCHANGED <<genVars, runVars, valVars, convVars, wsVars, fdVars, dbVars, dwVars>>

Spec == Init /\ [][Next]_vars

\* a run of generate_document on a new generator
GenInit == ParserIdle /\ GenConstructed /\ RunsIdle /\ ValIdle /\ ConvIdle /\ WsIdle /\ FdIdle /\ DbIdle /\ DwIdle

GenNext ==
    \/ CollectLabels /\ UNCHANGED <<parserVars, runVars, valVars, convVars, wsVars, fdVars, dbVars, dwVars>>
    \/ CollectLabelsFromSection /\ UNCHANGED <<parserVars, runVars, valVars, convVars, wsVars, fdVars, dbVars, dwVars>>
    \/ GenerateBody /\ UNCHANGED <<parserVars, runVars, valVars, convVars, wsVars, fdVars, dbVars, dwVars>>
    \/ GenerateSection /\ UNCHANGED <<parserVars, runVars, valVars, convVars, wsVars, fdVars, dbVars, dwVars>>
    \/ SaveDocument /\ UNCHANGED <<parserVars, runVars, valVars, convVars, wsVars, fdVars, dbVars, dwVars>>

SpecGen == GenInit /\ [][GenNext]_vars

\* two parse_document_folder calls on one parser, over the same folder
RunsInit == Constructed /\ GenIdle /\ RunsIdle /\ ValIdle /\ ConvIdle /\ WsIdle /\ FdIdle /\ DbIdle /\ DwIdle

RunsNext ==
    \/ FirstCall /\ UNCHANGED <<genVars, valVars, convVars, wsVars, fdVars, dbVars, dwVars>>
    \/ SkipEmptyFile /\ UNCHANGED <<genVars, valVars, convVars, wsVars, fdVars, dbVars, dwVars>>
    \/ StartFile /\ UNCHANGED <<genVars, valVars, convVars, wsVars, fdVars, dbVars, dwVars>>
    \/ NextLine /\ UNCHANGED <<genVars, valVars, convVars, wsVars, fdVars, dbVars, dwVars>>
    \/ EndFile /\ UNCHANGED <<genVars, valVars, convVars, wsVars, fdVars, dbVars, dwVars>>
    \/ Return /\ UNCHANGED <<genVars, valVars, convVars, wsVars, fdVars, dbVars, dwVars>>
    \/ SecondCall /\ UNCHANGED <<genVars, valVars, convVars, wsVars, fdVars, dbVars, dwVars>>

SpecRuns == RunsInit /\ [][RunsNext]_vars

\* a run of validate_document_folder on a new validator
ValInit == ParserIdle /\ GenIdle /\ RunsIdle /\ ValConstructed /\ ConvIdle /\ WsIdle /\ FdIdle /\ DbIdle /\ DwIdle

ValNext ==
    \/ ValidateDocumentFolder /\ UNCHANGED <<parserVars, genVars, runVars, convVars, wsVars, fdVars, dbVars, dwVars>>
    \/ ValidateMarkdownFile /\ UNCHANGED <<parserVars, genVars, runVars, convVars, wsVars, fdVars, dbVars, dwVars>>
    \/ ValidateStructureAndReport /\ UNCHANGED <<parserVars, genVars, runVars, convVars, wsVars, fdVars, dbVars, dwVars>>

SpecVal == ValInit /\ [][ValNext]_vars

\* convert_p_format_in_file applied twice to one file
ConvInit == ParserIdle /\ GenIdle /\ RunsIdle /\ ValIdle /\ ConvFile /\ WsIdle /\ FdIdle /\ DbIdle /\ DwIdle

ConvNext ==
    \/ ConvertPFormatInFile /\ UNCHANGED <<parserVars, genVars, runVars, valVars, wsVars, fdVars, dbVars, dwVars>>

SpecConv == ConvInit /\ [][ConvNext]_vars

\* sessions of the server working on their legal workspace managers
WsInit == ParserIdle /\ GenIdle /\ RunsIdle /\ ValIdle /\ ConvIdle /\ WsStarted /\ FdIdle /\ DbIdle /\ DwIdle

WsNext ==
    \/ InitializeLegalWorkspaceManager /\ UNCHANGED <<parserVars, genVars, runVars, valVars, convVars, fdVars, dbVars, dwVars>>
    \/ Initialize /\ UNCHANGED <<parserVars, genVars, runVars, valVars, convVars, fdVars, dbVars, dwVars>>
    \/ EnterCaseWorkspace /\ UNCHANGED <<parserVars, genVars, runVars, valVars, convVars, fdVars, dbVars, dwVars>>
    \/ ExitCaseWorkspace /\ UNCHANGED <<parserVars, genVars, runVars, valVars, convVars, fdVars, dbVars, dwVars>>
    \/ CleanupLegalWorkspaceManager /\ UNCHANGED <<parserVars, genVars, runVars, valVars, convVars, fdVars, dbVars, dwVars>>

SpecWs == WsInit /\ [][WsNext]_vars

\* generate_documents runs on different folders, interleaved
FdInit == ParserIdle /\ GenIdle /\ RunsIdle /\ ValIdle /\ ConvIdle /\ WsIdle /\ FdConstructed /\ DbIdle /\ DwIdle

FdNext ==
    \/ OpenPreviewFile /\ UNCHANGED <<parserVars, genVars, runVars, valVars, convVars, wsVars, dbVars, dwVars>>
    \/ WritePreview /\ UNCHANGED <<parserVars, genVars, runVars, valVars, convVars, wsVars, dbVars, dwVars>>
    \/ ReadPreview /\ UNCHANGED <<parserVars, genVars, runVars, valVars, convVars, wsVars, dbVars, dwVars>>
    \/ GeneratePdf /\ UNCHANGED <<parserVars, genVars, runVars, valVars, convVars, wsVars, dbVars, dwVars>>
    \/ GenerateDocx /\ UNCHANGED <<parserVars, genVars, runVars, valVars, convVars, wsVars, dbVars, dwVars>>

SpecFd == FdInit /\ [][FdNext]_vars

\* the observer thread and the timer threads of one draft file, interleaved
DbInit == ParserIdle /\ GenIdle /\ RunsIdle /\ ValIdle /\ ConvIdle /\ WsIdle /\ FdIdle /\ DbConstructed /\ DwIdle

DbNext ==
    \/ OnModified /\ UNCHANGED <<parserVars, genVars, runVars, valVars, convVars, wsVars, fdVars, dwVars>>
    \/ CancelTimer /\ UNCHANGED <<parserVars, genVars, runVars, valVars, convVars, wsVars, fdVars, dwVars>>
    \/ StoreTimer /\ UNCHANGED <<parserVars, genVars, runVars, valVars, convVars, wsVars, fdVars, dwVars>>
    \/ StartTimer /\ UNCHANGED <<parserVars, genVars, runVars, valVars, convVars, wsVars, fdVars, dwVars>>
    \/ TimerFires /\ UNCHANGED <<parserVars, genVars, runVars, valVars, convVars, wsVars, fdVars, dwVars>>
    \/ PopTimer /\ UNCHANGED <<parserVars, genVars, runVars, valVars, convVars, wsVars, fdVars, dwVars>>
    \/ HandleContentChange /\ UNCHANGED <<parserVars, genVars, runVars, valVars, convVars, wsVars, fdVars, dwVars>>

SpecDebounce == DbInit /\ [][DbNext]_vars

\* start, watch_case, unwatch_case and stop calls on one DraftWatcher
DwInit == ParserIdle /\ GenIdle /\ RunsIdle /\ ValIdle /\ ConvIdle /\ WsIdle /\ FdIdle /\ DbIdle /\ DwConstructed

DwNext ==
    \/ Start /\ UNCHANGED <<parserVars, genVars, runVars, valVars, convVars, wsVars, fdVars, dbVars>>
    \/ Stop /\ UNCHANGED <<parserVars, genVars, runVars, valVars, convVars, wsVars, fdVars, dbVars>>
    \/ WatchCase /\ UNCHANGED <<parserVars, genVars, runVars, valVars, convVars, wsVars, fdVars, dbVars>>
    \/ UnwatchCase /\ UNCHANGED <<parserVars, genVars, runVars, valVars, convVars, wsVars, fdVars, dbVars>>

SpecWatch == DwInit /\ [][DwNext]_vars

-----------------------------------------------------------------------------
(* Reading the returned tree *)

RECURSIVE Flatten(_)
Flatten(seqs) == IF seqs = <<>> THEN <<>> ELSE Head(seqs) \o Flatten(Tail(seqs))

\* the paragraphs of a section: its own, then those of its subsections in order
RECURSIVE SectionParagraphs(_)
SectionParagraphs(sec) ==
    sec.paragraphs
        \o Flatten([i \in 1..Len(sec.subsections) |-> SectionParagraphs(sec.subsections[i])])

\* the lists of a section: its own, then those of its subsections in order
RECURSIVE SectionLists(_)
SectionLists(sec) ==
    sec.lists \o Flatten([i \in 1..Len(sec.subsections) |-> SectionLists(sec.subsections[i])])

\* the paragraphs of the document, fragments in loader order
DocumentParagraphs == Flatten([i \in 1..Len(sections) |-> SectionParagraphs(sections[i])])

\* the list items of the document
DocumentListItems ==
    Flatten(Flatten([i \in 1..Len(sections) |-> SectionLists(sections[i])]))

IsNumbered(p) == p.is_numbered

\* the numbers of the paragraphs that came from a numbered marker, in walk order
AssignedNumbers ==
    LET ps == SelectSeq(DocumentParagraphs, IsNumbered)
    IN  [i \in 1..Len(ps) |-> ps[i].number]

Returned == pc = "returned"

\* the Issues the last resolve_cross_references call appended
NewIssues == SubSeq(errors, resErrs + 1, Len(errors))

Count(seq, x) == Cardinality({ i \in 1..Len(seq) : seq[i] = x })

-----------------------------------------------------------------------------
(* Claims *)

\* C1: in the tree parse_document_folder returns, the numbers of the paragraphs
\* that came from a numbered marker, read in walk order, are exactly 1, 2, ..., N,
\* whatever the digits of their markers, and total_paragraphs is N.
C1_GlobalNumbering ==
    Returned =>
        LET nums == AssignedNumbers
        IN  /\ nums = [i \in 1..Len(nums) |-> i]
            /\ total_paragraphs = Len(nums)

\* two fragments, the second with a subsection, and a paragraph whose marker
\* digits are not the number it is given
C1_Witness ==
    /\ Returned
    /\ Len(sections) = 2
    /\ sections[2].subsections # <<>>
    /\ total_paragraphs >= 2
    /\ \E i \in 1..Len(DocumentParagraphs) :
          /\ DocumentParagraphs[i].is_numbered
          /\ MarkerValue(DocumentParagraphs[i].original_number) # DocumentParagraphs[i].number

\* C2: after all fragments are parsed, every label of the LabelTable is mapped to
\* the assigned number of a numbered paragraph of the tree that carries the label,
\* not to the digits of that paragraph's marker.
C2_LabelsMapToAssignedNumbers ==
    Returned =>
        LET ps == DocumentParagraphs
        IN  \A l \in DOMAIN labels :
                \E i \in 1..Len(ps) :
                    /\ ps[i].is_numbered
                    /\ l \in Range(ps[i].labels)
                    /\ ps[i].number = labels[l]

\* a label bound to a paragraph whose marker digits differ from its number
C2_Witness ==
    /\ Returned
    /\ \E i \in 1..Len(DocumentParagraphs) :
          LET p == DocumentParagraphs[i]
          IN  /\ p.is_numbered
              /\ p.labels # <<>>
              /\ MarkerValue(p.original_number) # p.number
              /\ \A l \in Range(p.labels) : l \in DOMAIN labels /\ labels[l] = p.number

HasRawReference(text) == \E i \in 1..Len(text) : IsRefTok(text[i])

\* C3: in the Document parse_document_folder returns, no paragraph content and no
\* list item still holds a raw {{REF:..}} or {{REF_RANGE:..}} token.
C3_NoRawReferenceReturned ==
    Returned =>
        /\ \A i \in 1..Len(DocumentParagraphs) : ~HasRawReference(DocumentParagraphs[i].content)
        /\ \A i \in 1..Len(DocumentListItems) : ~HasRawReference(DocumentListItems[i])

\* the place in p.text of the token p.data[k]: the label tokens before it are gone
OutputAt(p, k) == p.text[k - Cardinality({ j \in 1..(k - 1) : IsLabelTok(p.data[j]) })]

\* the places of g_doc whose paragraph holds {{REF:x}} / defines x in pass 1
Referencing(x) ==
    { i \in 1..Len(g_doc) : g_doc[i].kind = "paragraph" /\ Ref(x) \in Range(g_doc[i].data) }
Defining(x) ==
    { i \in 1..Len(g_doc) : g_doc[i].kind = "paragraph" /\ Label(x) \in Range(g_doc[i].data) }

\* C4: in a generated document every {{REF:x}} is replaced by one and the same
\* text wherever it stands, and when a paragraph of the body defines x that text
\* is the number bound to x, whether the defining paragraph comes before or after
\* the referencing one.
C4_PositionIndependent ==
    gpc = "done" =>
        \A i \in 1..Len(g_doc) : \A k \in 1..Len(g_doc[i].data) :
            (g_doc[i].kind = "paragraph" /\ g_doc[i].data[k].t = "ref") =>
                LET x == g_doc[i].data[k].s
                IN  /\ \A j \in Referencing(x) : \A m \in 1..Len(g_doc[j].data) :
                          g_doc[j].data[m] = Ref(x) =>
                              OutputAt(g_doc[j], m) = OutputAt(g_doc[i], k)
                    /\ Defining(x) # {} =>
                          /\ x \in DOMAIN g_labels
                          /\ OutputAt(g_doc[i], k) = Txt(ToString(g_labels[x]))

\* {{REF:a}} before the paragraph that defines a, and again after it
C4_Witness ==
    /\ gpc = "done"
    /\ \E i \in Referencing("a"), d \in Defining("a"), j \in Referencing("a") :
          /\ i < d
          /\ d < j
          /\ Txt(ToString(g_labels["a"])) \in Range(g_doc[i].text)
          /\ g_doc[i].text = g_doc[j].text

\* C5: labels are write-once within a run: a label in the LabelTable keeps its
\* number for the rest of the run, so a later definition of the same name leaves
\* the first definition's paragraph number in the table.
C5_LabelsWriteOnce ==
    [][\A l \in DOMAIN labels : l \in DOMAIN labels' /\ labels'[l] = labels[l]]_vars

\* the numbered paragraph a ParseLine step has just created
NewParagraph ==
    IF current_subsection # <<>>
    THEN current_subsection[1].paragraphs[Len(current_subsection[1].paragraphs)]
    ELSE section.paragraphs[Len(section.paragraphs)]

\* C6: every second or later definition of a label name already bound adds an
\* error Issue to the issue list, and the paragraph carrying it keeps its content.
C6_DuplicateLabelReported ==
    [][(/\ current_paragraph_number' = current_paragraph_number + 1
        /\ \E l \in DOMAIN labels : l \in Range(NewParagraph'.labels))
          => (Len(errors') > Len(errors) /\ NewParagraph'.content # <<>>)]_vars

Resolved == pc = "returned" /\ resCalls > 0

\* C7: resolve_cross_references replaces a {{REF:x}} whose x is in the LabelTable
\* by the number of x and adds no Issue for it; one whose x is not there is
\* replaced by the error token naming x and adds exactly one error Issue.
C7_SingleReference ==
    Resolved =>
        /\ Len(resOut) = Len(resIn)
        /\ \A i \in 1..Len(resIn) :
              resIn[i].t = "ref" =>
                  LET x == resIn[i].s
                  IN  /\ x \in DOMAIN labels => resOut[i] = Txt(ToString(labels[x]))
                      /\ x \notin DOMAIN labels => resOut[i] = Txt("[REF ERROR: " \o x \o "]")
                      /\ Count(NewIssues, "Unresolved reference: " \o x)
                            = IF x \in DOMAIN labels THEN 0 ELSE Count(resIn, Ref(x))
        /\ (\A i \in 1..Len(resIn) : IsRefTok(resIn[i]) => Resolves(resIn[i], labels))
              => NewIssues = <<>>

\* one call with a reference that resolves and one that does not
C7_Witness ==
    /\ Resolved
    /\ resIn = <<Txt("See"), Ref("a"), Txt("and"), Ref("c"), RefRange("c", "a")>>
    /\ "a" \in DOMAIN labels
    /\ "c" \notin DOMAIN labels
    /\ resOut[2] = Txt(ToString(labels["a"]))
    /\ resOut[4] = Txt("[REF ERROR: c]")
    /\ NewIssues = <<"Unresolved reference range: c:a", "Unresolved reference: c">>

\* C8: a {{REF_RANGE:a:b}} with a, b or both missing from the LabelTable is
\* replaced by one error token and adds exactly one error Issue, which names both
\* endpoint labels.
C8_UnresolvedRange ==
    Resolved =>
        \A i \in 1..Len(resIn) :
            (resIn[i].t = "range" /\ ~Resolves(resIn[i], labels)) =>
                /\ resOut[i] = Txt("[REF ERROR: " \o resIn[i].s \o ":" \o resIn[i].e \o "]")
                /\ Count(NewIssues, "Unresolved reference range: " \o resIn[i].s \o ":"
                                        \o resIn[i].e)
                      = Count(resIn, resIn[i])

\* a range with both endpoints undefined
C8_Witness ==
    /\ Resolved
    /\ resIn = <<RefRange("a", "b")>>
    /\ "a" \notin DOMAIN labels
    /\ "b" \notin DOMAIN labels
    /\ NewIssues = <<"Unresolved reference range: a:b">>

\* C9: a range whose two endpoint labels resolve to the same paragraph number is
\* replaced by that single number, not by "N through N".
C9_RangeCollapses ==
    Resolved =>
        \A i \in 1..Len(resIn) :
            (/\ resIn[i].t = "range"
             /\ Resolves(resIn[i], labels)
             /\ labels[resIn[i].s] = labels[resIn[i].e])
                => resOut[i] = Txt(ToString(labels[resIn[i].s]))

\* two different labels bound to one paragraph, and a range over them
C9_Witness ==
    /\ Resolved
    /\ resIn = <<RefRange("b", "c")>>
    /\ {"b", "c"} \subseteq DOMAIN labels
    /\ labels["b"] = labels["c"]
    /\ resOut = <<Txt(ToString(labels["b"]))>>

\* C10: a range whose endpoints resolve to different numbers s and e is replaced
\* by "s through e", start label first, never swapped or sorted, also when s > e.
C10_RangeAsWritten ==
    Resolved =>
        \A i \in 1..Len(resIn) :
            (/\ resIn[i].t = "range"
             /\ Resolves(resIn[i], labels)
             /\ labels[resIn[i].s] # labels[resIn[i].e])
                => resOut[i] = Txt(ToString(labels[resIn[i].s]) \o " through "
                                     \o ToString(labels[resIn[i].e]))

\* a descending range
C10_Witness ==
    /\ Resolved
    /\ resIn = <<RefRange("a", "b")>>
    /\ {"a", "b"} \subseteq DOMAIN labels
    /\ labels["a"] > labels["b"]
    /\ resOut = <<Txt(ToString(labels["a"]) \o " through " \o ToString(labels["b"]))>>

-----------------------------------------------------------------------------
(* Reading the folder while a file is parsed *)

\* a line of the file being parsed has been read
InFile == pc = "file" /\ line_num >= 1

\* the line last read, and the non-blank line before it in the same file
CurrentLine == folder[md_files[order]][line_num]

PreviousLine == folder[md_files[order]][line_num - 1]

\* the paragraphs of the section the parser is adding to
OpenParagraphs ==
    IF current_subsection # <<>> THEN current_subsection[1].paragraphs
    ELSE section.paragraphs

\* the files of md_files[1..order] that have no content
EmptyFilesRead == { k \in 1..order : folder[md_files[k]] = <<>> }

\* C11: two parse_document_folder runs on one parser over the same unchanged
\* fragments return the same sections (so the same paragraph numbers), the same
\* LabelTable, the same total_paragraphs and the same issue lists.
C11_RerunsAgree ==
    (Returned /\ run = 2) =>
        /\ sections = first.sections
        /\ labels = first.labels
        /\ total_paragraphs = first.total_paragraphs
        /\ errors = first.errors
        /\ warnings = first.warnings

\* C12: after a header line with more than three markers is read, it is the
\* open section, at depth 3 and under its title, and an error Issue naming the
\* header level is the last one recorded.
C12_DeepHeaderPlaced ==
    (InFile /\ CurrentLine.k = "header" /\ CurrentLine.level > 3) =>
        /\ current_subsection # <<>>
        /\ current_subsection[1].title = CurrentLine.body[1].s
        /\ current_subsection[1].level = 3
        /\ errors # <<>>
        /\ errors[Len(errors)] =
              HeaderLevelError(CurrentLine.level, FileName(order), line_num)

\* C13: no anomaly aborts the run: parse_document_folder never ends in an
\* exception instead of a result.
C13_RunNeverAborts == pc # "raised"

\* C14: the validation step changes no section, paragraph, list, paragraph
\* number, label binding or counter value.
C14_ValidationFrame ==
    [][(pc = "folder" /\ pc' \in {"returned", "raised"}) =>
          /\ sections' = sections
          /\ labels' = labels
          /\ current_paragraph_number' = current_paragraph_number]_vars

\* validation has reported a missing required section on a document with content
C14_Witness ==
    /\ Returned
    /\ document_type = "complaint"
    /\ DocumentParagraphs # <<>>
    /\ errors # <<>>
    /\ errors[Len(errors)] = "Missing required section: INTRODUCTION"

\* C17: a fragment without content adds no section and takes no paragraph
\* number, and a warning, not an error, is recorded for it.
C17_EmptyFragmentWarned ==
    (run = 1 /\ pc = "folder") =>
        /\ Len(sections) = order - Cardinality(EmptyFilesRead)
        /\ Len(warnings) >= Cardinality(EmptyFilesRead)

\* C18: the sections of the result are in the lexical order of the names of the
\* files they came from, and a second run over the same files returns them in
\* the same order.
C18_SectionsInNameOrder ==
    Returned =>
        /\ \A i, j \in 1..Len(sections) :
              i < j => NameLess(SectionFiles[i], SectionFiles[j])
        /\ run = 2 => SectionFiles = first.files

\* both runs returned the sections of two files, in the order of their names
C18_Witness ==
    /\ Returned
    /\ run = 2
    /\ Len(sections) = 2
    /\ SectionFiles = <<1, 2>>
    /\ first.files = <<1, 2>>
    /\ folder[1] # folder[2]

\* C19: a plain line read right after a numbered paragraph starts no new
\* Paragraph: the last paragraph is still the numbered one and its content has
\* the text of the line appended.
C19_ProseContinuesParagraph ==
    (InFile /\ line_num >= 2 /\ CurrentLine.k = "prose" /\ PreviousLine.k = "num") =>
        LET ps == OpenParagraphs
        IN  /\ ps # <<>>
            /\ ps[Len(ps)].is_numbered
            /\ \A i \in 1..Len(CurrentLine.body) :
                  CurrentLine.body[i].t = "text"
                      => CurrentLine.body[i] \in Range(ps[Len(ps)].content)

\* C20: the first line that is not a list marker after a run of list-marker
\* lines closes the ListBlock, whatever kind of line it is, and a list-marker
\* line after a line of another kind starts a new ListBlock.
C20_ListClosedByAnyLine ==
    (InFile /\ line_num >= 2) =>
        /\ (PreviousLine.k = "list" /\ CurrentLine.k # "list")
              => (~in_list /\ current_list = <<>>)
        /\ (PreviousLine.k # "list" /\ CurrentLine.k = "list")
              => current_list = <<FormatLegalText(CurrentLine.body)>>

-----------------------------------------------------------------------------
(* Reading the validation report *)

Reported == vpc = "reported"

\* the Issues of the report located at a line of a file
IssuesAt(name, ln) ==
    SelectSeq(report.issues, LAMBDA e : e.file = name /\ e.line = ln)

B2N(b) == IF b THEN 1 ELSE 0

\* the number of violations of the rules a raw line holds
Violations(line, max) ==
    B2N(line.len > max) + B2N(line.plainNumber)
        + B2N(line.starNumber /\ ~line.boldNumber)
        + B2N(line.header > 3) + B2N(line.header > 0 /\ line.lowerHeader)
        + B2N(line.header > 0 /\ line.longHeader)
        + B2N(line.statute) + B2N(line.caseName)
        + Len(line.badLabels) + Len(line.badRefs) + Len(line.weak)

\* C15: the report holds one Issue for every violation of every line of every
\* file, and is_valid is true exactly when no Issue of the report has severity
\* error.
C15_CompleteReport ==
    Reported =>
        /\ \A f \in 1..Len(v_md_files) : \A ln \in 1..Len(v_md_files[f].lines) :
              Len(IssuesAt(v_md_files[f].name, ln))
                  = Violations(v_md_files[f].lines[ln], line_length_max)
        /\ report.is_valid
              <=> (\A i \in 1..Len(report.issues) : report.issues[i].severity # "error")
        /\ report.total_issues = Len(report.issues)

\* a failed run whose report has Issues of two files, two of them on one line,
\* and a warning
C15_Witness ==
    /\ Reported
    /\ ~report.is_valid
    /\ report.warnings >= 1
    /\ Len(v_md_files) = 2
    /\ \A f \in 1..2 : \E ln \in 1..Len(v_md_files[f].lines) :
          IssuesAt(v_md_files[f].name, ln) # <<>>
    /\ \E ln \in 1..Len(v_md_files[1].lines) :
          Len(IssuesAt(v_md_files[1].name, ln)) >= 2

\* the line_length Issues of the report located at a line of a file
LineLengthAt(name, ln) ==
    SelectSeq(IssuesAt(name, ln), LAMBDA e : e.type = "line_length")

\* C16: a raw line longer than the configured maximum has exactly one
\* line_length Issue, of severity warning, and a line not longer than the
\* maximum has none, however many words the line has.
C16_OneWarningPerLongLine ==
    Reported =>
        \A f \in 1..Len(v_md_files) : \A ln \in 1..Len(v_md_files[f].lines) :
            LET found == LineLengthAt(v_md_files[f].name, ln)
            IN  /\ Len(found)
                      = B2N(v_md_files[f].lines[ln].len > line_length_max)
                /\ \A i \in 1..Len(found) : found[i].severity = "warning"

\* a file with a line of 121 characters and 20 words that got one warning, and
\* a line of exactly the maximum length that got none
C16_Witness ==
    /\ Reported
    /\ line_length_max = DefaultLineLength
    /\ Len(v_md_files) >= 1
    /\ Len(v_md_files[1].lines) = 2
    /\ v_md_files[1].lines[1].len = 121
    /\ v_md_files[1].lines[1].words = 20
    /\ Len(LineLengthAt(v_md_files[1].name, 1)) = 1
    /\ v_md_files[1].lines[2].len = DefaultLineLength
    /\ LineLengthAt(v_md_files[1].name, 2) = <<>>

-----------------------------------------------------------------------------
(* Label tokens in the parsed output *)

HasLabelToken(text) == \E i \in 1..Len(text) : IsLabelTok(text[i])

\* C21: no paragraph content and no list item of the parsed output holds a
\* {{LABEL:..}} token.
C21_NoLabelTokenInOutput ==
    Returned =>
        /\ \A i \in 1..Len(DocumentParagraphs) :
              ~HasLabelToken(DocumentParagraphs[i].content)
        /\ \A i \in 1..Len(DocumentListItems) : ~HasLabelToken(DocumentListItems[i])

-----------------------------------------------------------------------------
(* The two passes of LegalDocumentGenerator *)

\* what _collect_labels leaves when it has gone through sections i.. of the
\* body: <<labels, temp_paragraph_number>>
RECURSIVE CollectedFrom(_, _, _)
CollectedFrom(i, n, table) ==
    IF i > Len(body) THEN <<table, n>>
    ELSE LET r == CollectLabelsFromContent(body[i].content, 1, n, table)
         IN  CollectedFrom(i + 1, r[2], r[1])

DefinedAt(l) ==
    { i \in 1..Len(g_doc) : g_doc[i].kind = "paragraph" /\ Label(l) \in Range(g_doc[i].data) }

\* C26: when the document is done, the number pass 1 bound to a label is the
\* number pass 2 printed on the paragraph that defines the label (the last one,
\* if several do).
C26_PassesAgree ==
    gpc = "done" =>
        \A l \in DOMAIN g_labels :
            \A i \in DefinedAt(l) :
                (\A j \in DefinedAt(l) : j <= i) => g_doc[i].number = g_labels[l]


-----------------------------------------------------------------------------
(* convert_p_format_in_file applied twice *)

\* C23: the conversion of legacy markers is idempotent: the second application
\* of convert_p_format_in_file leaves the text the first one produced and
\* reports zero changes.
C23_ConversionIdempotent ==
    conv_calls = 2 => content = converted /\ changes = 0


-----------------------------------------------------------------------------
(* The session workspace managers *)

\* the sessions that have a manager
Registered == DOMAIN managers

\* what the session sees through its manager
Seen(session_id) == WorkspaceInfo(GetLegalWorkspaceManager(session_id))

\* C24: managers of distinct sessions are distinct objects,
\* get_legal_workspace_manager(sid) returns the manager initialized for sid, and
\* a call made for one session leaves what every other session sees (current
\* case, workspace_base, runtime, sandbox volumes) unchanged.
C24_SessionIsolation ==
    /\ [](\A s \in Registered :
            /\ heap[GetLegalWorkspaceManager(s)].session_id = s
            /\ \A t \in Registered \ {s} :
                   GetLegalWorkspaceManager(s) # GetLegalWorkspaceManager(t))
    /\ [][\A t \in Registered :
            ws_last'.session_id # t =>
                /\ t \in Registered'
                /\ GetLegalWorkspaceManager(t)' = GetLegalWorkspaceManager(t)
                /\ Seen(t)' = Seen(t)]_vars

\* two sessions, one has entered a case and changed its configuration, the
\* other has not
C24_Witness ==
    \E s \in Registered : \E t \in Registered \ {s} :
        /\ ws_last = [op |-> "enter_case_workspace", session_id |-> s]
        /\ Seen(s).current_case_id # None
        /\ Seen(t).current_case_id = None
        /\ Seen(s).workspace_base # Seen(t).workspace_base

\* C25: after enter_case_workspace calls followed by exit_case_workspace the
\* manager's workspace_base, runtime and sandbox volumes are what they were
\* before the first enter, current_case_id is None and is_in_case_workspace()
\* is false.
C25_ExitRestoresConfiguration ==
    \A s \in Registered :
        ws_last = [op |-> "exit_case_workspace", session_id |-> s] =>
            /\ configs[heap[managers[s]].config] = config0[heap[managers[s]].config]
            /\ heap[managers[s]].current_case_id = None
            /\ ~IsInCaseWorkspace(managers[s])


-----------------------------------------------------------------------------
(* What a fragment's section keeps of the lines read *)

\* the lines of the given kinds among the lines read from the file of sections[i]
LinesRead(i, kinds) ==
    SelectSeq(folder[SectionFiles[i]], LAMBDA line : line.k \in kinds)

\* C27: every list item and every paragraph read from a fragment is in the
\* section _parse_markdown_file returned for it (in the section or in one of its
\* appended subsections) exactly once.
C27_NoContentLost ==
    run = 1 =>
        \A i \in 1..Len(sections) :
            /\ Len(SectionParagraphs(sections[i])) = Len(LinesRead(i, {"num", "prose"}))
            /\ Len(Flatten(SectionLists(sections[i]))) = Len(LinesRead(i, {"list"}))


-----------------------------------------------------------------------------
(* Interleaved generate_documents runs *)

\* C28: when generate_documents runs for different folders interleave, the
\* preview a run reads back, and converts to PDF and DOCX, is the HTML that run
\* generated from its own folder.
C28_RunConvertsOwnPreview ==
    \A r \in DOMAIN fd_pc :
        /\ fd_pc[r] \in {"read", "pdf", "returned"} =>
               preview_content[r] = HtmlContent(DocumentFolder(r))
        /\ generated_files[r].pdf \in {"", HtmlContent(DocumentFolder(r))}
        /\ generated_files[r].docx \in {"", HtmlContent(DocumentFolder(r))}


-----------------------------------------------------------------------------
(* The debounce of draft file changes *)

\* the timers that were started, not cancelled, and have not fired yet
PendingTimers == { t \in DOMAIN timers : timers[t] = "waiting" }

\* no thread has anything left to do for the file
Quiescent ==
    /\ ob_pc \in {"idle", "raised"}
    /\ \A t \in DOMAIN timers : timers[t] \in {"cancelled", "finished"}

\* C29: under every interleaving of the observer thread and the timer threads
\* at most one un-cancelled pending timer exists for the file, and a burst of
\* modifications, each coming before the previous timer has finished firing,
\* makes _handle_content_change run exactly once, after the last event.
C29_Debounce ==
    /\ Cardinality(PendingTimers) <= 1
    /\ (Quiescent /\ burst /\ db_events >= 1) =>
           /\ Len(handled) = 1
           /\ handled[1].events = db_events


-----------------------------------------------------------------------------
(* The handlers scheduled by the DraftWatcher *)

\* C30: at most one DraftFileHandler is scheduled on the observer per case
\* directory, and a case is in watched_cases exactly when a handler for it is
\* scheduled.
C30_OneHandlerPerWatchedCase ==
    \A c \in WatchCases :
        /\ scheduled[c] <= 1
        /\ c \in watched_cases <=> scheduled[c] >= 1

====
